---- MODULE Spec2Model ----
(***************************************************************************)
(* Model of the Cloud Run policy tools of cloudops-agent:                  *)
(*   app/tools/cloudrun_config_generator.py  (template generator + guard)  *)
(*   app/tools/cloudrun_reviewer.py          (rule sets + dispatcher)      *)
(*   app/tools/cloudrun_review_formatter.py  (decision + rendering)        *)
(*                                                                         *)
(* Python strings are sequences of one-character strings, so that regular  *)
(* expression searches, upper(), endswith() and substring tests are        *)
(* computed character by character.  Python values of unknown type (the    *)
(* result of yaml.safe_load, the config dict) are tagged records.          *)
(***************************************************************************)
EXTENDS Integers, Sequences, FiniteSets, TLC

----------------------------------------------------------------------------
\* Characters and strings

LowerChars ==
    <<"a","b","c","d","e","f","g","h","i","j","k","l","m",
      "n","o","p","q","r","s","t","u","v","w","x","y","z">>

UpperChars ==
    <<"A","B","C","D","E","F","G","H","I","J","K","L","M",
      "N","O","P","Q","R","S","T","U","V","W","X","Y","Z">>

DigitChars ==
    <<"0","1","2","3","4","5","6","7","8","9">>

Range(q) ==
    {q[i] : i \in DOMAIN q}

\* [A-Za-z0-9]
AlnumClass ==
    Range(LowerChars) \cup Range(UpperChars) \cup Range(DigitChars)

\* [A-Za-z0-9\-_]
TokenClass ==
    AlnumClass \cup {"-", "_"}

\* \w of Python's re for the ASCII characters used here
WordClass ==
    AlnumClass \cup {"_"}

\* \s
SpaceClass ==
    {" ", "\n", "\t"}

\* n copies of character c
Rep(c, n) ==
    [i \in 1..n |-> c]

\* str.upper() on one character
UpperChar(c) ==
    IF \E i \in DOMAIN LowerChars : LowerChars[i] = c
    THEN UpperChars[CHOOSE i \in DOMAIN LowerChars : LowerChars[i] = c]
    ELSE c

\* str.lower() on one character
LowerChar(c) ==
    IF \E i \in DOMAIN UpperChars : UpperChars[i] = c
    THEN LowerChars[CHOOSE i \in DOMAIN UpperChars : UpperChars[i] = c]
    ELSE c

StrUpper(s) ==
    [i \in DOMAIN s |-> UpperChar(s[i])]

StrLower(s) ==
    [i \in DOMAIN s |-> LowerChar(s[i])]

\* lit occurs in s starting at index i (1-based)
LitAt(s, i, lit) ==
    /\ i >= 1
    /\ i + Len(lit) - 1 <= Len(s)
    /\ \A j \in 1..Len(lit) : s[i + j - 1] = lit[j]

\* Python's "lit in s"
Contains(s, lit) ==
    \E i \in 1..(Len(s) - Len(lit) + 1) : LitAt(s, i, lit)

\* Python's s.endswith(lit)
EndsWith(s, lit) ==
    Len(lit) <= Len(s) /\ LitAt(s, Len(s) - Len(lit) + 1, lit)

\* s is a word character at index i; outside the string nothing is
IsWordAt(s, i) ==
    i >= 1 /\ i <= Len(s) /\ s[i] \in WordClass

\* \b between index p and index p + 1 (p = 0: start, p = Len(s): end)
WordBoundary(s, p) ==
    IsWordAt(s, p) # IsWordAt(s, p + 1)

\* the literals of the source, as character sequences
\* "sk-"
s_sk ==
    <<"s","k","-">>

\* "ya29."
s_ya29 ==
    <<"y","a","2","9",".">>

\* "AIza"
s_AIza ==
    <<"A","I","z","a">>

\* "ghp_"
s_ghp ==
    <<"g","h","p","_">>

\* "-----BEGIN "
s_pem_begin ==
    <<"-","-","-","-","-","B","E","G","I","N"," ">>

\* "RSA "
s_pem_rsa ==
    <<"R","S","A"," ">>

\* "EC "
s_pem_ec ==
    <<"E","C"," ">>

\* "PRIVATE KEY-----"
s_pem_end ==
    <<"P","R","I","V","A","T","E"," ","K","E","Y","-","-","-","-","-">>

\* "KEY"
s_KEY ==
    <<"K","E","Y">>

\* "TOKEN"
s_TOKEN ==
    <<"T","O","K","E","N">>

\* "SECRET"
s_SECRET ==
    <<"S","E","C","R","E","T">>

\* "PASSWORD"
s_PASSWORD ==
    <<"P","A","S","S","W","O","R","D">>

\* "WORKSPACE_ROOT"
s_WORKSPACE_ROOT ==
    <<"W","O","R","K","S","P","A","C","E","_","R","O","O","T">>

\* "/app"
s_app_dir ==
    <<"/","a","p","p">>

\* "API_TOKEN"
s_API_TOKEN ==
    <<"A","P","I","_","T","O","K","E","N">>

\* "FOO"
s_FOO ==
    <<"F","O","O">>

\* "db_password"
s_db_password ==
    <<"d","b","_","p","a","s","s","w","o","r","d">>

\* "hello"
s_hello ==
    <<"h","e","l","l","o">>

\* "us-central1"
s_us_central1 ==
    <<"u","s","-","c","e","n","t","r","a","l","1">>

\* "${SERVICE_NAME}"
s_SERVICE_NAME_ph ==
    <<"$","{","S","E","R","V","I","C","E","_","N","A","M","E","}">>

\* "${PROJECT_ID}"
s_PROJECT_ID_ph ==
    <<"$","{","P","R","O","J","E","C","T","_","I","D","}">>

\* "${REGION}"
s_REGION_ph ==
    <<"$","{","R","E","G","I","O","N","}">>

\* "${IMAGE}"
s_IMAGE_ph ==
    <<"$","{","I","M","A","G","E","}">>

\* "${SERVICE_ACCOUNT}"
s_SERVICE_ACCOUNT_ph ==
    <<"$","{","S","E","R","V","I","C","E","_","A","C","C","O","U","N","T","}">>

\* "all"
s_all ==
    <<"a","l","l">>

\* "internal"
s_internal ==
    <<"i","n","t","e","r","n","a","l">>

\* "internal-and-cloud-load-balancing"
s_internal_lb ==
    <<"i","n","t","e","r","n","a","l","-","a","n","d","-","c","l","o","u","d","-","l","o","a","d","-","b","a","l","a","n","c","i","n","g">>

\* "-compute@developer.gserviceaccount.com"
s_compute_sa_suffix ==
    <<"-","c","o","m","p","u","t","e","@","d","e","v","e","l","o","p","e","r",".","g","s","e","r","v","i","c","e","a","c","c","o","u","n","t",".","c","o","m">>

\* "IMAGE_PLACEHOLDER"
s_IMAGE_PLACEHOLDER ==
    <<"I","M","A","G","E","_","P","L","A","C","E","H","O","L","D","E","R">>

\* "latest"
s_latest ==
    <<"l","a","t","e","s","t">>

\* "openai-api-key"
s_openai_api_key ==
    <<"o","p","e","n","a","i","-","a","p","i","-","k","e","y">>

\* "1"
s_one ==
    <<"1">>

\* "512Mi"
s_512Mi ==
    <<"5","1","2","M","i">>

\* "auto"
s_auto ==
    <<"a","u","t","o">>

\* "yaml"
s_yaml ==
    <<"y","a","m","l">>

\* "sh"
s_sh ==
    <<"s","h">>

\* "cloudops-agent"
s_cloudops_agent ==
    <<"c","l","o","u","d","o","p","s","-","a","g","e","n","t">>
----------------------------------------------------------------------------
\* Secret-pattern guard (cloudrun_config_generator.py)

\* {20,} in three of the patterns
SecretMinLen ==
    20

\* \b lit [cls]{minN,} \b  matches somewhere in s
PrefixRunMatch(s, lit, cls, minN) ==
    \E i \in 1..Len(s) :
        /\ LitAt(s, i, lit)
        /\ WordBoundary(s, i - 1)
        /\ \E n \in minN..(Len(s) - i - Len(lit) + 1) :
              /\ \A k \in (i + Len(lit))..(i + Len(lit) + n - 1) : s[k] \in cls
              /\ WordBoundary(s, i + Len(lit) + n - 1)

\* -----BEGIN (?:RSA |EC |)PRIVATE KEY-----
PrivateKeyMatch(s) ==
    \E mid \in {s_pem_rsa, s_pem_ec, <<>>} :
        Contains(s, s_pem_begin \o mid \o s_pem_end)

\* _SUSPECT_SECRET_RE.search(s) is not None, for a string s
SUSPECT_SECRET_RE_search(s) ==
    \/ PrefixRunMatch(s, s_sk, AlnumClass, SecretMinLen)
    \/ PrefixRunMatch(s, s_ya29, TokenClass, 1)
    \/ PrefixRunMatch(s, s_AIza, TokenClass, SecretMinLen)
    \/ PrefixRunMatch(s, s_ghp, AlnumClass, SecretMinLen)
    \/ PrivateKeyMatch(s)

\* 'gcr.io/p/app:v1'
s_image_real ==
    <<"g","c","r",".","i","o","/","p","/","a","p","p",":","v","1">>

\* 'run@p.iam.gserviceaccount.com'
s_sa_real ==
    <<"r","u","n","@","p",".","i","a","m",".","g","s","e","r","v","i","c","e","a","c","c","o","u","n","t",".","c","o","m">>

\* 'OPENAI_API_KEY'
s_OPENAI_API_KEY ==
    <<"O","P","E","N","A","I","_","A","P","I","_","K","E","Y">>

\* '1Gi'
s_1Gi ==
    <<"1","G","i">>

\* 'public'
s_public ==
    <<"p","u","b","l","i","c">>

\* 'internal-and-load-balanced'
s_internal_spec_lb ==
    <<"i","n","t","e","r","n","a","l","-","a","n","d","-","l","o","a","d","-","b","a","l","a","n","c","e","d">>

\* 'serving.knative.dev/v1'
s_serving_v1 ==
    <<"s","e","r","v","i","n","g",".","k","n","a","t","i","v","e",".","d","e","v","/","v","1">>

\* 'Service'
s_Service ==
    <<"S","e","r","v","i","c","e">>

\* 'http1'
s_http1 ==
    <<"h","t","t","p","1">>

\* 'true'
s_true ==
    <<"t","r","u","e">>

\* 'false'
s_false ==
    <<"f","a","l","s","e">>

\* 'null'
s_null ==
    <<"n","u","l","l">>

\* '#!/usr/bin/env bash'
s_sh_shebang ==
    <<"#","!","/","u","s","r","/","b","i","n","/","e","n","v"," ","b","a","s","h">>

\* 'REGION="${REGION:-'
s_sh_region_pre ==
    <<"R","E","G","I","O","N","=","\"","$","{","R","E","G","I","O","N",":","-">>

\* 'SERVICE_NAME="${SERVICE_NAME:-'
s_sh_name_pre ==
    <<"S","E","R","V","I","C","E","_","N","A","M","E","=","\"","$","{","S","E","R","V","I","C","E","_","N","A","M","E",":","-">>

\* '}"'
s_sh_close ==
    <<"}","\"">>

\* '  gcloud run services replace /tmp/service.rendered.yaml'
s_sh_replace ==
    <<" "," ","g","c","l","o","u","d"," ","r","u","n"," ","s","e","r","v","i","c","e","s"," ","r","e","p","l","a","c","e"," ","/","t","m","p","/","s","e","r","v","i","c","e",".","r","e","n","d","e","r","e","d",".","y","a","m","l">>

\* 'export REGION="'
s_md_region_pre ==
    <<"e","x","p","o","r","t"," ","R","E","G","I","O","N","=","\"">>

\* 'export SERVICE_NAME="'
s_md_name_pre ==
    <<"e","x","p","o","r","t"," ","S","E","R","V","I","C","E","_","N","A","M","E","=","\"">>

\* '"'
s_md_close ==
    <<"\"">>

\* 'env['
s_env_open ==
    <<"e","n","v","[">>

\* ']'
s_env_close ==
    <<"]">>

\* 'secret_env['
s_secret_env_open ==
    <<"s","e","c","r","e","t","_","e","n","v","[">>

\* '].secret'
s_dot_secret ==
    <<"]",".","s","e","c","r","e","t">>

\* '].version'
s_dot_version ==
    <<"]",".","v","e","r","s","i","o","n">>

\* 'service_name'
s_f_service_name ==
    <<"s","e","r","v","i","c","e","_","n","a","m","e">>

\* 'ingress'
s_f_ingress ==
    <<"i","n","g","r","e","s","s">>

\* 'concurrency'
s_f_concurrency ==
    <<"c","o","n","c","u","r","r","e","n","c","y">>

\* 'timeout_seconds'
s_f_timeout_seconds ==
    <<"t","i","m","e","o","u","t","_","s","e","c","o","n","d","s">>

\* 'min_instances/max_instances'
s_f_min_max ==
    <<"m","i","n","_","i","n","s","t","a","n","c","e","s","/","m","a","x","_","i","n","s","t","a","n","c","e","s">>

\* 'min_instances'
s_f_min_instances ==
    <<"m","i","n","_","i","n","s","t","a","n","c","e","s">>

\* 'image'
s_f_image ==
    <<"i","m","a","g","e">>

\* 'service_account'
s_f_service_account ==
    <<"s","e","r","v","i","c","e","_","a","c","c","o","u","n","t">>

\* the guard without its pattern search: every non-empty string is rejected
assert_no_secret_value_raises_AnyStr(value) ==
    value.t = "str" /\ Len(value.v) > 0

\* the guard with its isinstance test inverted: strings return early
assert_no_secret_value_raises_StrSkipped(value) ==
    FALSE

\* _assert_no_secret_value(value, field_name=...): TRUE when it raises.
\* None and non-string values return without error.
assert_no_secret_value_raises(value) ==
    IF value.t = "none" THEN FALSE
    ELSE IF value.t # "str" THEN FALSE
    ELSE SUSPECT_SECRET_RE_search(value.v)

----------------------------------------------------------------------------
\* Python values whose type is not known statically: tagged records.
\*   none | bool | int | float | str | list | map (dict with fixed keys) |
\*   dict (insertion-ordered dict, as a sequence of [k, v] items)

PyNone ==
    [t |-> "none"]

PyBool(b) ==
    [t |-> "bool", v |-> b]

PyInt(n) ==
    [t |-> "int", v |-> n]

\* a float that is not integral, kept as its decimal text
PyFloat(txt) ==
    [t |-> "float", v |-> txt]

PyStr(s) ==
    [t |-> "str", v |-> s]

PyList(q) ==
    [t |-> "list", v |-> q]

PyMap(f) ==
    [t |-> "map", v |-> f]

PyDict(items) ==
    [t |-> "dict", v |-> items]

\* the empty mapping (a function with no key)
EmptyMap ==
    [k \in {} |-> PyNone]

\* bool(x)
Truthy(x) ==
    CASE x.t = "none" -> FALSE
      [] x.t = "bool" -> x.v
      [] x.t = "int" -> x.v # 0
      [] x.t = "float" -> TRUE
      [] x.t = "str" -> Len(x.v) > 0
      [] x.t = "list" -> Len(x.v) > 0
      [] x.t = "map" -> DOMAIN x.v # {}
      [] x.t = "dict" -> Len(x.v) > 0

RECURSIVE NatToStr(_)
\* decimal digits of a natural number
NatToStr(n) ==
    IF n < 10 THEN <<DigitChars[n + 1]>>
    ELSE NatToStr(n \div 10) \o <<DigitChars[(n % 10) + 1]>>

\* str(n) for an int
IntToStr(n) ==
    IF n < 0 THEN <<"-">> \o NatToStr(-n) ELSE NatToStr(n)

\* str(x); the repr of a container is kept opaque
ToStr(x) ==
    CASE x.t = "none" -> <<"N","o","n","e">>
      [] x.t = "bool" -> IF x.v THEN <<"T","r","u","e">> ELSE <<"F","a","l","s","e">>
      [] x.t = "int" -> IntToStr(x.v)
      [] x.t = "float" -> x.v
      [] x.t = "str" -> x.v
      [] x.t = "list" -> <<"[",".",".",".","]">>
      [] x.t = "map" -> <<"{",".",".",".","}">>
      [] x.t = "dict" -> <<"{",".",".",".","}">>

\* index of the first / last character that is not whitespace (0 if none)
FirstNonSpace(s) ==
    IF \E i \in DOMAIN s : s[i] \notin SpaceClass
    THEN CHOOSE i \in DOMAIN s :
            s[i] \notin SpaceClass /\ \A j \in 1..(i - 1) : s[j] \in SpaceClass
    ELSE 0

LastNonSpace(s) ==
    IF \E i \in DOMAIN s : s[i] \notin SpaceClass
    THEN CHOOSE i \in DOMAIN s :
            s[i] \notin SpaceClass /\ \A j \in (i + 1)..Len(s) : s[j] \in SpaceClass
    ELSE 0

\* str.strip()
StrStrip(s) ==
    IF FirstNonSpace(s) = 0 THEN <<>>
    ELSE SubSeq(s, FirstNonSpace(s), LastNonSpace(s))

DigitValue(c) ==
    (CHOOSE i \in DOMAIN DigitChars : DigitChars[i] = c) - 1

RECURSIVE DigitsToNat(_)
DigitsToNat(s) ==
    IF Len(s) = 0 THEN 0
    ELSE 10 * DigitsToNat(SubSeq(s, 1, Len(s) - 1)) + DigitValue(s[Len(s)])

AllDigits(s) ==
    Len(s) > 0 /\ \A i \in DOMAIN s : s[i] \in Range(DigitChars)

\* int(s) for a string s: optional surrounding whitespace, optional sign,
\* decimal digits.  [ok |-> FALSE] stands for ValueError.
ParseInt(s) ==
    LET b == StrStrip(s)
        signed == Len(b) > 0 /\ b[1] \in {"-", "+"}
        digits == IF signed THEN SubSeq(b, 2, Len(b)) ELSE b
    IN  IF AllDigits(digits)
        THEN [ok |-> TRUE,
              v |-> IF signed /\ b[1] = "-" THEN -DigitsToNat(digits)
                    ELSE DigitsToNat(digits)]
        ELSE [ok |-> FALSE, v |-> 0]

\* int(x) as the generator applies it to a config value
PyIntOf(x) ==
    CASE x.t = "int" -> [ok |-> TRUE, v |-> x.v]
      [] x.t = "bool" -> [ok |-> TRUE, v |-> IF x.v THEN 1 ELSE 0]
      [] x.t = "str" -> ParseInt(x.v)
      [] OTHER -> [ok |-> FALSE, v |-> 0]

\* d.get(k, default) on a dict with fixed keys
Get(d, k, default) ==
    IF k \in DOMAIN d THEN d[k] ELSE default

----------------------------------------------------------------------------
\* Generator (cloudrun_config_generator.py)

\* an exception leaving a function; `field` is the field the message starts
\* with (empty when the message names none)
Raised(type, field) ==
    [ok |-> FALSE, type |-> type, field |-> field]

\* SecretEnvRef(secret=ref.get("secret", ""), version=ref.get("version", "latest"))
SecretEnvRef(ref) ==
    [secret |-> Get(ref.v, "secret", PyStr(<<>>)),
     version |-> Get(ref.v, "version", PyStr(s_latest))]

\* the values int() is applied to (lines 349-355)
IntFields ==
    {"port", "concurrency", "timeout_seconds", "min_instances", "max_instances"}

IntDefault(k) ==
    CASE k = "port" -> 8080
      [] k = "concurrency" -> 80
      [] k = "timeout_seconds" -> 300
      [] k = "min_instances" -> 0
      [] k = "max_instances" -> 3

\* the default of the env map
DefaultEnv ==
    PyDict(<<[k |-> s_WORKSPACE_ROOT, v |-> PyStr(s_app_dir)]>>)

\* Convert dict -> CloudRunConfig (generate_cloudrun_templates, lines 337-361).
\* The result is the config object, or the exception a conversion raises.
CloudRunConfig(config_dict) ==
    LET secret_env_in == Get(config_dict, "secret_env", PyNone)
        secret_env_src == IF Truthy(secret_env_in) THEN secret_env_in ELSE PyDict(<<>>)
        env_in == Get(config_dict, "env", PyNone)
        env_src == IF Truthy(env_in) THEN env_in ELSE DefaultEnv
        ints == [k \in IntFields |-> PyIntOf(Get(config_dict, k, PyInt(IntDefault(k))))]
    IN  IF secret_env_src.t # "dict"
        THEN Raised("AttributeError", <<>>)
        ELSE IF \E i \in DOMAIN secret_env_src.v : secret_env_src.v[i].v.t # "map"
        THEN Raised("AttributeError", <<>>)
        ELSE IF \E k \in IntFields : ~ints[k].ok
        THEN Raised("ValueError", <<>>)
        ELSE IF env_src.t # "dict"
        THEN Raised("ValueError", <<>>)
        ELSE [ok |-> TRUE,
              service_name |-> Get(config_dict, "service_name", PyStr(s_SERVICE_NAME_ph)),
              project_id |-> Get(config_dict, "project_id", PyStr(s_PROJECT_ID_ph)),
              region |-> Get(config_dict, "region", PyStr(s_REGION_ph)),
              image |-> Get(config_dict, "image", PyStr(s_IMAGE_ph)),
              port |-> ints["port"].v,
              cpu |-> ToStr(Get(config_dict, "cpu", PyStr(s_one))),
              memory |-> ToStr(Get(config_dict, "memory", PyStr(s_512Mi))),
              concurrency |-> ints["concurrency"].v,
              timeout_seconds |-> ints["timeout_seconds"].v,
              min_instances |-> ints["min_instances"].v,
              max_instances |-> ints["max_instances"].v,
              ingress |-> ToStr(Get(config_dict, "ingress", PyStr(s_all))),
              allow_unauthenticated |->
                  Truthy(Get(config_dict, "allow_unauthenticated", PyBool(FALSE))),
              service_account |->
                  Get(config_dict, "service_account", PyStr(s_SERVICE_ACCOUNT_ph)),
              env |-> env_src.v,
              secret_env |-> [i \in DOMAIN secret_env_src.v |->
                                  [k |-> secret_env_src.v[i].k,
                                   v |-> SecretEnvRef(secret_env_src.v[i].v)]]]

\* the modes with the load-balancing one left out
IngressModes_TwoOnly ==
    {s_all, s_internal}

\* the ingress modes validate accepts (line 115)
IngressModes ==
    {s_all, s_internal, s_internal_lb}

\* index of the first plain env item whose value the guard rejects (0: none)
FirstSecretEnv(env) ==
    IF \E i \in DOMAIN env : assert_no_secret_value_raises(env[i].v)
    THEN CHOOSE i \in DOMAIN env :
            /\ assert_no_secret_value_raises(env[i].v)
            /\ \A j \in 1..(i - 1) : ~assert_no_secret_value_raises(env[j].v)
    ELSE 0

\* the check of the secret name alone
BadRef_NameOnly(ref) ==
    ~Truthy(ref.secret)

BadRef(ref) ==
    ~Truthy(ref.secret) \/ ~Truthy(ref.version)

\* index of the first secret reference with an empty name or version (0: none)
FirstBadRef(secret_env) ==
    IF \E i \in DOMAIN secret_env : BadRef(secret_env[i].v)
    THEN CHOOSE i \in DOMAIN secret_env :
            /\ BadRef(secret_env[i].v)
            /\ \A j \in 1..(i - 1) : ~BadRef(secret_env[j].v)
    ELSE 0

\* the min/max check of validate (line 123)
MinAboveMax(cfg) ==
    cfg.max_instances # 0 /\ cfg.min_instances > cfg.max_instances

\* CloudRunConfig.validate: [ok |-> TRUE] or the first ValueError it raises
validate(cfg) ==
    IF ~Truthy(cfg.service_name)
    THEN Raised("ValueError", s_f_service_name)
    ELSE IF cfg.ingress \notin IngressModes
    THEN Raised("ValueError", s_f_ingress)
    ELSE IF cfg.concurrency <= 0
    THEN Raised("ValueError", s_f_concurrency)
    ELSE IF cfg.timeout_seconds <= 0
    THEN Raised("ValueError", s_f_timeout_seconds)
    ELSE IF cfg.min_instances < 0 \/ cfg.max_instances < 0
    THEN Raised("ValueError", s_f_min_max)
    ELSE IF MinAboveMax(cfg)
    THEN Raised("ValueError", s_f_min_instances)
    ELSE IF FirstSecretEnv(cfg.env) # 0
    THEN Raised("ValueError",
                s_env_open \o cfg.env[FirstSecretEnv(cfg.env)].k \o s_env_close)
    ELSE IF FirstBadRef(cfg.secret_env) # 0
    THEN LET r == cfg.secret_env[FirstBadRef(cfg.secret_env)]
         IN  Raised("ValueError",
                    s_secret_env_open \o r.k \o
                        (IF ~Truthy(r.v.secret) THEN s_dot_secret ELSE s_dot_version))
    ELSE IF assert_no_secret_value_raises(cfg.image)
    THEN Raised("ValueError", s_f_image)
    ELSE IF assert_no_secret_value_raises(cfg.service_account)
    THEN Raised("ValueError", s_f_service_account)
    ELSE [ok |-> TRUE]

\* SecretEnvRef.to_env_item
to_env_item(env_name, ref) ==
    PyMap(("name" :> PyStr(env_name)) @@
          ("valueFrom" :> PyMap("secretKeyRef" :>
              PyMap(("name" :> ref.secret) @@ ("key" :> ref.version)))))

\* env_items of to_service_yaml_dict (lines 144-150)
EnvItems(cfg) ==
    [i \in DOMAIN cfg.env |->
        PyMap(("name" :> PyStr(cfg.env[i].k)) @@ ("value" :> cfg.env[i].v))]
    \o [i \in DOMAIN cfg.secret_env |->
        to_env_item(cfg.secret_env[i].k, cfg.secret_env[i].v)]

\* no serviceAccountName entry at all
ServiceAccountEntry_Omitted(cfg) ==
    EmptyMap

\* the entry with the placeholder left out of the descriptor
ServiceAccountEntry_PlaceholderOmitted(cfg) ==
    IF Truthy(cfg.service_account) /\ cfg.service_account # PyStr(s_SERVICE_ACCOUNT_ph)
    THEN "serviceAccountName" :> cfg.service_account
    ELSE EmptyMap

\* the serviceAccountName entry of spec (lines 164-168)
ServiceAccountEntry(cfg) ==
    IF Truthy(cfg.service_account) /\ cfg.service_account # PyStr(s_SERVICE_ACCOUNT_ph)
    THEN "serviceAccountName" :> cfg.service_account
    ELSE IF cfg.service_account = PyStr(s_SERVICE_ACCOUNT_ph)
    THEN "serviceAccountName" :> cfg.service_account
    ELSE EmptyMap

\* CloudRunConfig.to_service_yaml_dict, once validate has passed
service_dict(cfg) ==
    LET container ==
            PyMap(("image" :> cfg.image) @@
                  ("ports" :> PyList(<<PyMap(("name" :> PyStr(s_http1)) @@
                                             ("containerPort" :> PyInt(cfg.port)))>>)) @@
                  ("env" :> PyList(EnvItems(cfg))))
        spec ==
            PyMap(("containerConcurrency" :> PyInt(cfg.concurrency)) @@
                  ("timeoutSeconds" :> PyInt(cfg.timeout_seconds)) @@
                  ("containers" :> PyList(<<container>>)) @@
                  ServiceAccountEntry(cfg))
        annotations ==
            PyMap(("autoscaling.knative.dev/minScale" :> PyStr(IntToStr(cfg.min_instances))) @@
                  ("autoscaling.knative.dev/maxScale" :> PyStr(IntToStr(cfg.max_instances))) @@
                  ("run.googleapis.com/cpu" :> PyStr(cfg.cpu)) @@
                  ("run.googleapis.com/memory" :> PyStr(cfg.memory)))
    IN  PyMap(("apiVersion" :> PyStr(s_serving_v1)) @@
              ("kind" :> PyStr(s_Service)) @@
              ("metadata" :> PyMap(
                  ("name" :> cfg.service_name) @@
                  ("annotations" :> PyMap(
                      "run.googleapis.com/ingress" :> PyStr(cfg.ingress))))) @@
              ("spec" :> PyMap("template" :> PyMap(
                  ("metadata" :> PyMap("annotations" :> annotations)) @@
                  ("spec" :> spec)))))

\* to_service_yaml_dict without its call of validate
to_service_yaml_dict_Unvalidated(cfg) ==
    [ok |-> TRUE, v |-> service_dict(cfg)]

\* to_service_yaml_dict: validate first, then the dict
to_service_yaml_dict(cfg) ==
    IF validate(cfg).ok THEN [ok |-> TRUE, v |-> service_dict(cfg)] ELSE validate(cfg)

----------------------------------------------------------------------------
\* yaml.safe_dump / yaml.safe_load (PyYAML, outside the repository).
\* A YAML text is kept as its node tree; every scalar node holds the
\* characters written for it, plain or single-quoted.  Only the scalar
\* resolution that decides the type read back is modelled: decimal integers,
\* true/false, null, the empty scalar and decimal fractions.

\* the value a plain (unquoted) scalar is read as
YamlResolve(s) ==
    LET signed == Len(s) > 0 /\ s[1] \in {"-", "+"}
        digits == IF signed THEN SubSeq(s, 2, Len(s)) ELSE s
        dot == {i \in DOMAIN digits : digits[i] = "."}
    IN  IF AllDigits(digits) THEN PyInt(ParseInt(s).v)
        ELSE IF /\ Cardinality(dot) = 1
                /\ \A i \in dot : /\ AllDigits(SubSeq(digits, 1, i - 1))
                                  /\ AllDigits(SubSeq(digits, i + 1, Len(digits)))
             THEN PyFloat(s)
        ELSE IF s = s_true THEN PyBool(TRUE)
        ELSE IF s = s_false THEN PyBool(FALSE)
        ELSE IF s = s_null \/ s = <<"~">> \/ s = <<>> THEN PyNone
        ELSE PyStr(s)

\* the scalar node yaml.safe_dump writes for a scalar value
DumpScalar(x) ==
    IF x.t = "str"
    THEN IF YamlResolve(x.v).t = "str"
         THEN [t |-> "plain", v |-> x.v]
         ELSE [t |-> "quoted", v |-> x.v]
    ELSE IF x.t = "none" THEN [t |-> "plain", v |-> s_null]
    ELSE IF x.t = "bool" THEN [t |-> "plain", v |-> IF x.v THEN s_true ELSE s_false]
    ELSE [t |-> "plain", v |-> ToStr(x)]

RECURSIVE DumpNode(_)
\* yaml.safe_dump(data, sort_keys=False): the node tree of the text
DumpNode(x) ==
    CASE x.t = "map" -> [t |-> "map", v |-> [k \in DOMAIN x.v |-> DumpNode(x.v[k])]]
      [] x.t = "list" -> [t |-> "list", v |-> [i \in DOMAIN x.v |-> DumpNode(x.v[i])]]
      [] OTHER -> DumpScalar(x)

RECURSIVE LoadNode(_)
\* yaml.safe_load on the node tree of a text
LoadNode(n) ==
    CASE n.t = "map" -> PyMap([k \in DOMAIN n.v |-> LoadNode(n.v[k])])
      [] n.t = "list" -> PyList([i \in DOMAIN n.v |-> LoadNode(n.v[i])])
      [] n.t = "quoted" -> PyStr(n.v)
      [] n.t = "plain" -> YamlResolve(n.v)

RECURSIVE NodeScalars(_)
\* the character runs the scalars of a YAML text occupy, quotes included
NodeScalars(n) ==
    CASE n.t = "map" -> UNION {NodeScalars(n.v[k]) : k \in DOMAIN n.v}
      [] n.t = "list" -> UNION {NodeScalars(n.v[i]) : i \in DOMAIN n.v}
      [] n.t = "quoted" -> {<<"'">> \o n.v \o <<"'">>}
      [] n.t = "plain" -> {n.v}

\* generate_service_yaml: the text of service.yaml, or what validate raises
generate_service_yaml(cfg) ==
    LET data == to_service_yaml_dict(cfg)
    IN  IF data.ok THEN [ok |-> TRUE, v |-> [kind |-> "yaml", tree |-> DumpNode(data.v)]]
        ELSE data

\* f"{x if x else default}" of the two templates
OrDefault(x, default) ==
    IF Truthy(x) THEN ToStr(x) ELSE default

\* generate_deploy_sh: the lines of the template that carry a config field,
\* the shebang and the gcloud command; the other lines are fixed text
generate_deploy_sh(cfg) ==
    [kind |-> "text",
     lines |-> <<s_sh_shebang,
                 s_sh_region_pre \o OrDefault(cfg.region, s_us_central1) \o s_sh_close,
                 s_sh_name_pre \o OrDefault(cfg.service_name, s_cloudops_agent) \o s_sh_close,
                 s_sh_replace>>]

\* generate_readme_md: the lines of the template that carry a config field
\* (lines 287-288 and 313-314 of the source)
generate_readme_md(cfg) ==
    [kind |-> "text",
     lines |-> <<s_md_region_pre \o OrDefault(cfg.region, s_us_central1) \o s_md_close,
                 s_md_name_pre \o OrDefault(cfg.service_name, s_cloudops_agent) \o s_md_close,
                 s_md_region_pre \o OrDefault(cfg.region, s_us_central1) \o s_md_close,
                 s_md_name_pre \o OrDefault(cfg.service_name, s_cloudops_agent) \o s_md_close>>]

\* the secret patterns find a match in the text of a generated file
ContentHasSecret(content) ==
    IF content.kind = "yaml"
    THEN \E s \in NodeScalars(content.tree) : SUSPECT_SECRET_RE_search(s)
    ELSE \E i \in DOMAIN content.lines : SUSPECT_SECRET_RE_search(content.lines[i])

----------------------------------------------------------------------------
\* Texts of the reviewer

\* '(unknown)'
s_unknown ==
    <<"(","u","n","k","n","o","w","n",")">>

\* '(from deploy script)'
s_from_script ==
    <<"(","f","r","o","m"," ","d","e","p","l","o","y"," ","s","c","r","i","p","t",")">>

\* 'multiple'
s_multiple ==
    <<"m","u","l","t","i","p","l","e">>

\* 'apiVersion'
s_apiVersion ==
    <<"a","p","i","V","e","r","s","i","o","n">>

\* 'apiVersion:'
s_apiVersion_colon ==
    <<"a","p","i","V","e","r","s","i","o","n",":">>

\* 'kind:'
s_kind_colon ==
    <<"k","i","n","d",":">>

\* 'gcloud run deploy'
s_gcloud_run_deploy ==
    <<"g","c","l","o","u","d"," ","r","u","n"," ","d","e","p","l","o","y">>

\* '#!/usr/bin/env'
s_env_shebang ==
    <<"#","!","/","u","s","r","/","b","i","n","/","e","n","v">>

\* 'bash'
s_bash ==
    <<"b","a","s","h">>

\* '--allow-unauthenticated'
s_fl_allow_unauth ==
    <<"-","-","a","l","l","o","w","-","u","n","a","u","t","h","e","n","t","i","c","a","t","e","d">>

\* '--service-account'
s_fl_service_account ==
    <<"-","-","s","e","r","v","i","c","e","-","a","c","c","o","u","n","t">>

\* '--set-env-vars'
s_fl_set_env_vars ==
    <<"-","-","s","e","t","-","e","n","v","-","v","a","r","s">>

\* '--set-secrets'
s_fl_set_secrets ==
    <<"-","-","s","e","t","-","s","e","c","r","e","t","s">>

\* '--min-instances'
s_fl_min_instances ==
    <<"-","-","m","i","n","-","i","n","s","t","a","n","c","e","s">>

\* '--max-instances'
s_fl_max_instances ==
    <<"-","-","m","a","x","-","i","n","s","t","a","n","c","e","s">>

\* '--concurrency'
s_fl_concurrency ==
    <<"-","-","c","o","n","c","u","r","r","e","n","c","y">>

\* '--timeout'
s_fl_timeout ==
    <<"-","-","t","i","m","e","o","u","t">>

\* '--cpu-boost'
s_fl_cpu_boost ==
    <<"-","-","c","p","u","-","b","o","o","s","t">>

\* 'abc'
s_abc ==
    <<"a","b","c">>

\* 'x'
s_x ==
    <<"x">>


\* the finding codes
s_YAML001 ==
    <<"Y","A","M","L","0","0","1">>

s_YAML010 ==
    <<"Y","A","M","L","0","1","0">>

s_YAML020 ==
    <<"Y","A","M","L","0","2","0">>

s_YAML021 ==
    <<"Y","A","M","L","0","2","1">>

s_YAML030 ==
    <<"Y","A","M","L","0","3","0">>

s_YAML031 ==
    <<"Y","A","M","L","0","3","1">>

s_YAML040 ==
    <<"Y","A","M","L","0","4","0">>

s_YAML041 ==
    <<"Y","A","M","L","0","4","1">>

s_YAML050 ==
    <<"Y","A","M","L","0","5","0">>

s_YAML060 ==
    <<"Y","A","M","L","0","6","0">>

s_YAML061 ==
    <<"Y","A","M","L","0","6","1">>

s_YAML070 ==
    <<"Y","A","M","L","0","7","0">>

s_YAML071 ==
    <<"Y","A","M","L","0","7","1">>

s_YAML080 ==
    <<"Y","A","M","L","0","8","0">>

s_SH001 ==
    <<"S","H","0","0","1">>

s_SH010 ==
    <<"S","H","0","1","0">>

s_SH011 ==
    <<"S","H","0","1","1">>

s_SH020 ==
    <<"S","H","0","2","0">>

s_SH021 ==
    <<"S","H","0","2","1">>

s_SH030 ==
    <<"S","H","0","3","0">>

s_SH031 ==
    <<"S","H","0","3","1">>

s_SH040 ==
    <<"S","H","0","4","0">>

s_SH050 ==
    <<"S","H","0","5","0">>

s_SH060 ==
    <<"S","H","0","6","0">>

\* 'apiVersion: serving.knative.dev/v1\nkind: Service\n'
s_descriptor_head ==
    <<"a","p","i","V","e","r","s","i","o","n",":"," ","s","e","r","v","i","n","g",".","k","n","a","t","i","v","e",".","d","e","v","/","v","1","\n","k","i","n","d",":"," ","S","e","r","v","i","c","e","\n">>

\* 'apiVersion : v1'
s_t_api_spaced ==
    <<"a","p","i","V","e","r","s","i","o","n"," ",":"," ","v","1">>

\* 'note apiVersion: kind: x'
s_t_inline_markers ==
    <<"n","o","t","e"," ","a","p","i","V","e","r","s","i","o","n",":"," ","k","i","n","d",":"," ","x">>

\* '#!/usr/bin/env  bash\ngcloud run services replace x'
s_t_shebang_script ==
    <<"#","!","/","u","s","r","/","b","i","n","/","e","n","v"," "," ","b","a","s","h","\n","g","c","l","o","u","d"," ","r","u","n"," ","s","e","r","v","i","c","e","s"," ","r","e","p","l","a","c","e"," ","x">>

\* '#!/usr/bin/env bash\napiVersion: v1\nkind: Service'
s_t_both ==
    <<"#","!","/","u","s","r","/","b","i","n","/","e","n","v"," ","b","a","s","h","\n","a","p","i","V","e","r","s","i","o","n",":"," ","v","1","\n","k","i","n","d",":"," ","S","e","r","v","i","c","e">>

\* 'gcloud run deploy svc'
s_deploy_cmd ==
    <<"g","c","l","o","u","d"," ","r","u","n"," ","d","e","p","l","o","y"," ","s","v","c">>

\* ' --allow-unauthenticated'
s_fr_allow ==
    <<" ","-","-","a","l","l","o","w","-","u","n","a","u","t","h","e","n","t","i","c","a","t","e","d">>

\* ' --no-allow-unauthenticated'
s_fr_no_allow ==
    <<" ","-","-","n","o","-","a","l","l","o","w","-","u","n","a","u","t","h","e","n","t","i","c","a","t","e","d">>

\* ' --service-account run@p.iam.gserviceaccount.com'
s_fr_sa ==
    <<" ","-","-","s","e","r","v","i","c","e","-","a","c","c","o","u","n","t"," ","r","u","n","@","p",".","i","a","m",".","g","s","e","r","v","i","c","e","a","c","c","o","u","n","t",".","c","o","m">>

\* ' --service-account "1-compute@developer.gserviceaccount.com"'
s_fr_sa_compute ==
    <<" ","-","-","s","e","r","v","i","c","e","-","a","c","c","o","u","n","t"," ","\"","1","-","c","o","m","p","u","t","e","@","d","e","v","e","l","o","p","e","r",".","g","s","e","r","v","i","c","e","a","c","c","o","u","n","t",".","c","o","m","\"">>

\* ' --set-env-vars API_KEY=abc123'
s_fr_env_key ==
    <<" ","-","-","s","e","t","-","e","n","v","-","v","a","r","s"," ","A","P","I","_","K","E","Y","=","a","b","c","1","2","3">>

\* ' --set-env-vars FOO=bar'
s_fr_env_plain ==
    <<" ","-","-","s","e","t","-","e","n","v","-","v","a","r","s"," ","F","O","O","=","b","a","r">>

\* ' --SET-ENV-VARS\n  db_password = x'
s_fr_env_split ==
    <<" ","-","-","S","E","T","-","E","N","V","-","V","A","R","S","\n"," "," ","d","b","_","p","a","s","s","w","o","r","d"," ","="," ","x">>

\* ' --set-secrets K=s:latest'
s_fr_secrets ==
    <<" ","-","-","s","e","t","-","s","e","c","r","e","t","s"," ","K","=","s",":","l","a","t","e","s","t">>

\* ' --min-instances 2'
s_fr_min ==
    <<" ","-","-","m","i","n","-","i","n","s","t","a","n","c","e","s"," ","2">>

\* ' --max-instances 5'
s_fr_max ==
    <<" ","-","-","m","a","x","-","i","n","s","t","a","n","c","e","s"," ","5">>

\* ' --concurrency 80'
s_fr_conc ==
    <<" ","-","-","c","o","n","c","u","r","r","e","n","c","y"," ","8","0">>

\* ' --timeout 1000'
s_fr_timeout ==
    <<" ","-","-","t","i","m","e","o","u","t"," ","1","0","0","0">>

\* ' --cpu-boost'
s_fr_boost ==
    <<" ","-","-","c","p","u","-","b","o","o","s","t">>

\* 'v1'
s_v1 ==
    <<"v","1">>

\* 'app'
s_app ==
    <<"a","p","p">>

\* 'prod'
s_prod ==
    <<"p","r","o","d">>

\* 'bar'
s_bar ==
    <<"b","a","r">>

\* 'API_KEY'
s_API_KEY ==
    <<"A","P","I","_","K","E","Y">>

\* 'api_key'
s_api_key_lc ==
    <<"a","p","i","_","k","e","y">>

\* 'abc123'
s_abc123 ==
    <<"a","b","c","1","2","3">>

\* 'json'
s_json ==
    <<"j","s","o","n">>

\* ' YAML '
s_YAML_padded ==
    <<" ","Y","A","M","L"," ">>

\* '0'
s_zero ==
    <<"0">>

\* '2'
s_two ==
    <<"2">>

\* '3'
s_three ==
    <<"3">>

\* ' 2 '
s_two_padded ==
    <<" ","2"," ">>

\* '1.5'
s_1_5 ==
    <<"1",".","5">>

\* 'apiVersion: v1\nkind: ['
s_t_broken ==
    <<"a","p","i","V","e","r","s","i","o","n",":"," ","v","1","\n","k","i","n","d",":"," ","[">>

\* 'apiVersion: v1\nkind: {\ngcloud run deploy x'
s_t_both_broken ==
    <<"a","p","i","V","e","r","s","i","o","n",":"," ","v","1","\n","k","i","n","d",":"," ","{","\n","g","c","l","o","u","d"," ","r","u","n"," ","d","e","p","l","o","y"," ","x">>

----------------------------------------------------------------------------
\* Reviewer (cloudrun_reviewer.py)

\* Finding(severity, code, ...).as_dict(); message and recommendation are
\* fixed texts per code and are left out
Finding(severity, code) ==
    [severity |-> severity, code |-> code]

\* zero or one finding, as the list a check appends
When(cond, severity, code) ==
    IF cond THEN <<Finding(severity, code)>> ELSE <<>>

\* _to_int(x): int(str(x)), None when that raises
to_int(x) ==
    LET r == ParseInt(ToStr(x))
    IN  IF r.ok THEN PyInt(r.v) ELSE PyNone

RECURSIVE get_path(_, _, _)
\* _get(d, path, default)
get_path(d, path, default) ==
    IF Len(path) = 0 THEN d
    ELSE IF d.t # "map" \/ Head(path) \notin DOMAIN d.v THEN default
    ELSE get_path(d.v[Head(path)], Tail(path), default)

\* x or default
OrElse(x, default) ==
    IF Truthy(x) THEN x ELSE default

\* m.get(k) and m.get(k, default) for a dict m
MapGet(m, k) ==
    IF k \in DOMAIN m.v THEN m.v[k] ELSE PyNone

MapGetOr(m, k, default) ==
    IF k \in DOMAIN m.v THEN m.v[k] ELSE default

\* x.get(...) raises AttributeError: x is no dict
GetRaises(x) ==
    x.t # "map"

\* the items `for env in container.get("env", []) or []` visits; iterating a
\* str gives its characters and iterating a dict its keys, all of them strings
EnvIterable(c0) ==
    OrElse(MapGetOr(c0, "env", PyList(<<>>)), PyList(<<>>))

EnvIterRaises(c0) ==
    EnvIterable(c0).t \notin {"list", "str", "map"}

EnvEntries(c0) ==
    IF EnvIterable(c0).t = "list" THEN EnvIterable(c0).v ELSE <<>>

\* the names the plaintext check looks for in an env var's name
SecretNameWords ==
    {s_KEY, s_TOKEN, s_SECRET, s_PASSWORD}

\* one env entry of _has_plaintext_key_yaml's loop returns True
PlaintextKeyEntry(env) ==
    /\ env.t = "map"
    /\ \E w \in SecretNameWords :
          Contains(StrUpper(ToStr(MapGetOr(env, "name", PyStr(<<>>)))), w)
    /\ "value" \in DOMAIN env.v
    /\ Truthy(MapGet(env, "value"))

\* _has_plaintext_key_yaml(container)
has_plaintext_key_yaml(c0) ==
    \E i \in DOMAIN EnvEntries(c0) : PlaintextKeyEntry(EnvEntries(c0)[i])

\* env.get("valueFrom", {}).get("secretKeyRef") raises for this entry
SecretRefEntryRaises(env) ==
    env.t = "map" /\ GetRaises(MapGetOr(env, "valueFrom", PyMap(EmptyMap)))

\* ... or is truthy
SecretRefEntry(env) ==
    /\ env.t = "map"
    /\ ~SecretRefEntryRaises(env)
    /\ Truthy(MapGet(MapGetOr(env, "valueFrom", PyMap(EmptyMap)), "secretKeyRef"))

\* _has_secret_ref_yaml(container): the loop stops at the first entry that
\* returns True or raises
has_secret_ref_yaml(c0) ==
    \E i \in DOMAIN EnvEntries(c0) :
        /\ SecretRefEntry(EnvEntries(c0)[i])
        /\ \A j \in 1..(i - 1) : ~SecretRefEntryRaises(EnvEntries(c0)[j])

has_secret_ref_yaml_raises(c0) ==
    \E i \in DOMAIN EnvEntries(c0) :
        /\ SecretRefEntryRaises(EnvEntries(c0)[i])
        /\ \A j \in 1..(i - 1) : ~SecretRefEntry(EnvEntries(c0)[j])

\* the values review_service_yaml reads from the document (lines 74-77, 152)
DocLabels(doc) ==
    OrElse(get_path(doc, <<"metadata", "labels">>, PyMap(EmptyMap)), PyMap(EmptyMap))

DocAnn(doc) ==
    OrElse(get_path(doc, <<"spec", "template", "metadata", "annotations">>, PyMap(EmptyMap)),
           PyMap(EmptyMap))

DocSpec(doc) ==
    OrElse(get_path(doc, <<"spec", "template", "spec">>, PyMap(EmptyMap)), PyMap(EmptyMap))

DocContainers(doc) ==
    OrElse(MapGetOr(DocSpec(doc), "containers", PyList(<<>>)), PyList(<<>>))

\* containers[0] raises: a dict has no key 0, a number cannot be indexed
FirstContainerRaises(containers) ==
    containers.t \notin {"list", "str"}

\* c0 = containers[0]
FirstContainer(containers) ==
    IF containers.t = "list" THEN containers.v[1] ELSE PyStr(<<containers.v[1]>>)

\* (c0.get("resources") or {})
C0Resources(c0) ==
    OrElse(MapGet(c0, "resources"), PyMap(EmptyMap))

\* (...).get("limits") or {}
C0Limits(c0) ==
    OrElse(MapGet(C0Resources(c0), "limits"), PyMap(EmptyMap))

\* the container checks of lines 160-190 raise
ContainerChecksRaise(containers) ==
    \/ FirstContainerRaises(containers)
    \/ LET c0 == FirstContainer(containers)
       IN  \/ GetRaises(c0)
           \/ EnvIterRaises(c0)
           \/ has_secret_ref_yaml_raises(c0)
           \/ GetRaises(C0Resources(c0))
           \/ GetRaises(C0Limits(c0))

\* review_service_yaml raises after the document was parsed
RulesRaise(doc) ==
    \/ GetRaises(DocLabels(doc))
    \/ GetRaises(DocAnn(doc))
    \/ GetRaises(DocSpec(doc))
    \/ LET sa == MapGet(DocSpec(doc), "serviceAccountName")
       IN  Truthy(sa) /\ sa.t # "str"
    \/ (Truthy(DocContainers(doc)) /\ ContainerChecksRaise(DocContainers(doc)))

\* the findings of lines 160-190, for the first container
ContainerFindings(c0) ==
    LET img == ToStr(OrElse(MapGetOr(c0, "image", PyStr(<<>>)), PyStr(<<>>)))
        limits == C0Limits(c0)
    IN  When(Len(img) = 0 \/ Contains(img, s_IMAGE_PLACEHOLDER), "HIGH", s_YAML061)
        \o When(has_plaintext_key_yaml(c0), "HIGH", s_YAML070)
        \o When(~has_secret_ref_yaml(c0), "MEDIUM", s_YAML071)
        \o When(~Truthy(MapGet(limits, "cpu")) \/ ~Truthy(MapGet(limits, "memory")),
                "LOW", s_YAML080)

\* ingress in (None, "", "all")
IngressOpen(ingress) ==
    ingress = PyNone \/ ingress = PyStr(<<>>) \/ ingress = PyStr(s_all)

\* the findings list of review_service_yaml, in the order the checks run
YamlFindings(doc) ==
    LET labels == DocLabels(doc)
        ann == DocAnn(doc)
        spec == DocSpec(doc)
        min_scale == to_int(MapGet(ann, "autoscaling.knative.dev/minScale"))
        max_scale == to_int(MapGet(ann, "autoscaling.knative.dev/maxScale"))
        sa == MapGet(spec, "serviceAccountName")
        conc == to_int(MapGet(spec, "containerConcurrency"))
        timeout == to_int(MapGet(spec, "timeoutSeconds"))
        containers == DocContainers(doc)
    IN  When(~Truthy(MapGet(labels, "app")) \/ ~Truthy(MapGet(labels, "env")),
             "LOW", s_YAML001)
        \o When(IngressOpen(MapGet(ann, "run.googleapis.com/ingress")), "INFO", s_YAML010)
        \o When(min_scale # PyNone /\ min_scale.v > 0, "MEDIUM", s_YAML020)
        \o When(max_scale = PyNone, "MEDIUM", s_YAML021)
        \o (IF ~Truthy(sa) THEN <<Finding("HIGH", s_YAML030)>>
            ELSE When(EndsWith(sa.v, s_compute_sa_suffix), "MEDIUM", s_YAML031))
        \o When(conc # PyNone /\ conc.v >= 50, "MEDIUM", s_YAML040)
        \o When(timeout # PyNone /\ timeout.v > 900, "LOW", s_YAML041)
        \o When(MapGet(ann, "run.googleapis.com/cpu-throttling") = PyStr(s_false),
                "INFO", s_YAML050)
        \o (IF ~Truthy(containers) THEN <<Finding("HIGH", s_YAML060)>>
            ELSE ContainerFindings(FirstContainer(containers)))

SEV_ORDER ==
    <<"HIGH", "MEDIUM", "LOW", "INFO">>

Severities ==
    Range(SEV_ORDER)

\* the findings of one severity, in list order
Bucket(findings, sev) ==
    SelectSeq(findings, LAMBDA f : f.severity = sev)

\* a report whose score counts every finding once
format_report_Unweighted(kind, service, findings) ==
    LET by == [s \in Severities |-> Bucket(findings, s)]
    IN  [ok |-> TRUE,
         kind |-> kind,
         service |-> service,
         score |-> Len(findings),
         summary |-> [s \in Severities |-> Len(by[s])],
         findings |-> by]

\* _format_report(kind, service, findings)
format_report(kind, service, findings) ==
    LET by == [s \in Severities |-> Bucket(findings, s)]
    IN  [ok |-> TRUE,
         kind |-> kind,
         service |-> service,
         score |-> Len(by["HIGH"]) * 10 + Len(by["MEDIUM"]) * 5
                   + Len(by["LOW"]) * 2 + Len(by["INFO"]) * 1,
         summary |-> [s \in Severities |-> Len(by[s])],
         findings |-> by]

\* a load that reads a text with no parse as the empty document
yaml_safe_load_Lenient(text) ==
    IF text.tree.t = "error" THEN [ok |-> TRUE, v |-> PyNone]
    ELSE [ok |-> TRUE, v |-> LoadNode(text.tree)]

\* yaml.safe_load(text): the document, or YAMLError for a text with no parse
yaml_safe_load(text) ==
    IF text.tree.t = "error" THEN Raised("YAMLError", <<>>)
    ELSE [ok |-> TRUE, v |-> LoadNode(text.tree)]

\* review_service_yaml(yaml_text): the report, or the exception raised
\* (AttributeError stands for the AttributeError, TypeError or KeyError that
\* the use of a value of unexpected shape raises)
review_service_yaml(text) ==
    LET loaded == yaml_safe_load(text)
    IN  IF ~loaded.ok THEN loaded
        ELSE IF RulesRaise(loaded.v) THEN Raised("AttributeError", <<>>)
        ELSE format_report("yaml",
                           OrElse(get_path(loaded.v, <<"metadata", "name">>, PyStr(<<>>)),
                                  PyStr(s_unknown)),
                           YamlFindings(loaded.v))


----------------------------------------------------------------------------
\* Script rule set: regular expressions with re.IGNORECASE | re.MULTILINE

\* lit matches at index i, letters compared without case
LitAtCI(s, i, lit) ==
    /\ i >= 1
    /\ i + Len(lit) - 1 <= Len(s)
    /\ \A j \in 1..Len(lit) : LowerChar(s[i + j - 1]) = LowerChar(lit[j])

\* _sh_has(flag + r"\b", text)
sh_has_flag(flag, text) ==
    \E i \in 1..Len(text) :
        LitAtCI(text, i, flag) /\ WordBoundary(text, i + Len(flag) - 1)

\* the index after the whitespace run that starts at index i (\s+ must take
\* the whole run: no group class holds a whitespace character)
RECURSIVE SkipSpace(_, _)
SkipSpace(s, i) ==
    IF i <= Len(s) /\ s[i] \in SpaceClass THEN SkipSpace(s, i + 1) ELSE i

\* the character class of a capture group: [^\s\"\\] for the service
\* account, \d for the numbers
GroupChar(grp, c) ==
    IF grp = "digits" THEN c \in Range(DigitChars)
    ELSE c \notin SpaceClass \cup {"\"", "\\"}

\* the longest run of characters of the group that starts at index i
RECURSIVE RunFrom(_, _, _)
RunFrom(s, i, grp) ==
    IF i <= Len(s) /\ GroupChar(grp, s[i]) THEN <<s[i]>> \o RunFrom(s, i + 1, grp) ELSE <<>>

\* flag \s+ \"? (group+) matched with the flag at index i: the group, or <<>>
CaptureAt(s, i, flag, grp) ==
    LET j == SkipSpace(s, i + Len(flag))
        g == IF j <= Len(s) /\ s[j] = "\"" THEN j + 1 ELSE j
    IN  IF LitAtCI(s, i, flag) /\ j > i + Len(flag) THEN RunFrom(s, g, grp) ELSE <<>>

\* _sh_capture(flag + r"\s+\"?(group+)", text): group 1 of the leftmost
\* match, PyNone without a match
sh_capture(flag, text, grp) ==
    LET hits == {i \in 1..Len(text) : Len(CaptureAt(text, i, flag, grp)) > 0}
    IN  IF hits = {} THEN PyNone
        ELSE PyStr(CaptureAt(text, CHOOSE i \in hits : \A h \in hits : i <= h,
                             flag, grp))

\* the pattern matched with the case of its name words kept
sh_plain_secret_env_CaseKept(text) ==
    \E i \in 1..Len(text) :
        /\ LitAtCI(text, i, s_fl_set_env_vars)
        /\ \E a \in (i + Len(s_fl_set_env_vars) + 1)..SkipSpace(text, i + Len(s_fl_set_env_vars)) :
              \E k \in a..Len(text), w \in SecretNameWords :
                  /\ LitAt(text, k, w)
                  /\ \A m \in a..(k - 1) : text[m] # "\n"
                  /\ LET e == SkipSpace(text, k + Len(w))
                     IN  e <= Len(text) /\ text[e] = "="

\* --set-env-vars\s+.*(KEY|TOKEN|SECRET|PASSWORD)\s*=
sh_plain_secret_env(text) ==
    \E i \in 1..Len(text) :
        /\ LitAtCI(text, i, s_fl_set_env_vars)
        /\ \E a \in (i + Len(s_fl_set_env_vars) + 1)..SkipSpace(text, i + Len(s_fl_set_env_vars)) :
              \E k \in a..Len(text), w \in SecretNameWords :
                  /\ LitAtCI(text, k, w)
                  /\ \A m \in a..(k - 1) : text[m] # "\n"
                  /\ LET e == SkipSpace(text, k + Len(w))
                     IN  e <= Len(text) /\ text[e] = "="

\* int(group) > bound for a captured group, FALSE without a match
CapturedAbove(cap, bound) ==
    cap # PyNone /\ DigitsToNat(cap.v) > bound

\* the findings with SH020 appended whether or not --set-secrets is present
ShFindings_PlainSecretUnguarded(text) ==
    LET sa == sh_capture(s_fl_service_account, text, "sa")
        no_secrets_flag == ~sh_has_flag(s_fl_set_secrets, text)
    IN  When(sh_has_flag(s_fl_allow_unauth, text), "HIGH", s_SH001)
        \o (IF ~Truthy(sa) THEN <<Finding("MEDIUM", s_SH010)>>
            ELSE When(EndsWith(sa.v, s_compute_sa_suffix), "MEDIUM", s_SH011))
        \o When(sh_plain_secret_env(text), "HIGH", s_SH020)
        \o When(no_secrets_flag, "MEDIUM", s_SH021)
        \o When(CapturedAbove(sh_capture(s_fl_min_instances, text, "digits"), 0),
                "MEDIUM", s_SH030)
        \o When(sh_capture(s_fl_max_instances, text, "digits") = PyNone, "MEDIUM", s_SH031)
        \o When(CapturedAbove(sh_capture(s_fl_concurrency, text, "digits"), 49),
                "MEDIUM", s_SH040)
        \o When(CapturedAbove(sh_capture(s_fl_timeout, text, "digits"), 900),
                "LOW", s_SH050)
        \o When(sh_has_flag(s_fl_cpu_boost, text), "INFO", s_SH060)

\* the findings with SH010 appended for the default compute account too
ShFindings_AccountNotAlternative(text) ==
    LET sa == sh_capture(s_fl_service_account, text, "sa")
        no_secrets_flag == ~sh_has_flag(s_fl_set_secrets, text)
        compute == Truthy(sa) /\ EndsWith(sa.v, s_compute_sa_suffix)
    IN  When(sh_has_flag(s_fl_allow_unauth, text), "HIGH", s_SH001)
        \o When(~Truthy(sa) \/ compute, "MEDIUM", s_SH010)
        \o When(compute, "MEDIUM", s_SH011)
        \o When(sh_plain_secret_env(text) /\ no_secrets_flag, "HIGH", s_SH020)
        \o When(no_secrets_flag, "MEDIUM", s_SH021)
        \o When(CapturedAbove(sh_capture(s_fl_min_instances, text, "digits"), 0),
                "MEDIUM", s_SH030)
        \o When(sh_capture(s_fl_max_instances, text, "digits") = PyNone, "MEDIUM", s_SH031)
        \o When(CapturedAbove(sh_capture(s_fl_concurrency, text, "digits"), 49),
                "MEDIUM", s_SH040)
        \o When(CapturedAbove(sh_capture(s_fl_timeout, text, "digits"), 900),
                "LOW", s_SH050)
        \o When(sh_has_flag(s_fl_cpu_boost, text), "INFO", s_SH060)

\* the findings list of review_deploy_sh, in the order the checks run
ShFindings(text) ==
    LET sa == sh_capture(s_fl_service_account, text, "sa")
        no_secrets_flag == ~sh_has_flag(s_fl_set_secrets, text)
    IN  When(sh_has_flag(s_fl_allow_unauth, text), "HIGH", s_SH001)
        \o (IF ~Truthy(sa) THEN <<Finding("MEDIUM", s_SH010)>>
            ELSE When(EndsWith(sa.v, s_compute_sa_suffix), "MEDIUM", s_SH011))
        \o When(sh_plain_secret_env(text) /\ no_secrets_flag, "HIGH", s_SH020)
        \o When(no_secrets_flag, "MEDIUM", s_SH021)
        \o When(CapturedAbove(sh_capture(s_fl_min_instances, text, "digits"), 0),
                "MEDIUM", s_SH030)
        \o When(sh_capture(s_fl_max_instances, text, "digits") = PyNone, "MEDIUM", s_SH031)
        \o When(CapturedAbove(sh_capture(s_fl_concurrency, text, "digits"), 49),
                "MEDIUM", s_SH040)
        \o When(CapturedAbove(sh_capture(s_fl_timeout, text, "digits"), 900),
                "LOW", s_SH050)
        \o When(sh_has_flag(s_fl_cpu_boost, text), "INFO", s_SH060)

\* review_deploy_sh(sh_text)
review_deploy_sh(text) ==
    format_report("sh", PyStr(s_from_script), ShFindings(text.chars))

----------------------------------------------------------------------------
\* Dispatcher

\* ^\s* at index i: a line starts at or before i with only whitespace between
AtLineStart(s, i) ==
    \E p \in 1..i :
        /\ p = 1 \/ s[p - 1] = "\n"
        /\ \A j \in p..(i - 1) : s[j] \in SpaceClass

\* re.search(r"^\s*apiVersion\s*:", text, re.M)
ApiVersionLine(s) ==
    \E i \in 1..Len(s) :
        /\ LitAt(s, i, s_apiVersion)
        /\ AtLineStart(s, i)
        /\ LET e == SkipSpace(s, i + Len(s_apiVersion))
           IN  e <= Len(s) /\ s[e] = ":"

\* re.search(r"^\s*#!/usr/bin/env\s+bash", text, re.M)
ShebangLine(s) ==
    \E i \in 1..Len(s) :
        /\ LitAt(s, i, s_env_shebang)
        /\ AtLineStart(s, i)
        /\ LET e == SkipSpace(s, i + Len(s_env_shebang))
           IN  e > i + Len(s_env_shebang) /\ LitAt(s, e, s_bash)

looks_yaml(s) ==
    (Contains(s, s_apiVersion_colon) /\ Contains(s, s_kind_colon)) \/ ApiVersionLine(s)

looks_sh(s) ==
    Contains(s, s_gcloud_run_deploy) \/ ShebangLine(s)

\* k = (kind or "auto").lower().strip()
NormalKind(kind) ==
    StrStrip(StrLower(OrElse(kind, PyStr(s_auto)).v))

\* the rule sets review_cloudrun_config(text, kind) calls, in call order;
\* the script rule set is not reached when the descriptor rule set raises
RuleSetsRun(text, kind) ==
    LET k == NormalKind(kind)
        ly == looks_yaml(text.chars)
        ls == looks_sh(text.chars)
    IN  IF k = s_yaml THEN <<"yaml">>
        ELSE IF k = s_sh THEN <<"sh">>
        ELSE IF ly /\ ~review_service_yaml(text).ok THEN <<"yaml">>
        ELSE (IF ly THEN <<"yaml">> ELSE <<>>) \o (IF ls THEN <<"sh">> ELSE <<>>)

\* a placeholder that is the report of a rule set run on the unmatched text
Skipped_Forced(kind) ==
    [ok |-> TRUE, kind |-> kind,
     findings |-> [s \in Severities |-> <<>>], summary |-> [s \in Severities |-> 0]]

\* {"kind": kind, "skipped": True}
Skipped(kind) ==
    [ok |-> TRUE, kind |-> kind, skipped |-> TRUE]

\* a dispatcher that falls back to the script rule set when no marker matches
review_cloudrun_config_ScriptFallback(text, kind) ==
    LET k == NormalKind(kind)
        ly == looks_yaml(text.chars)
        ls == looks_sh(text.chars)
    IN  IF k = s_yaml THEN review_service_yaml(text)
        ELSE IF k = s_sh THEN review_deploy_sh(text)
        ELSE IF ly /\ ~ls THEN review_service_yaml(text)
        ELSE IF ~ly THEN review_deploy_sh(text)
        ELSE IF ~review_service_yaml(text).ok THEN review_service_yaml(text)
        ELSE [ok |-> TRUE,
              kind |-> "auto",
              reports |-> <<review_service_yaml(text), review_deploy_sh(text)>>]

\* a dispatcher that detects the kind even when one is forced
review_cloudrun_config_AlwaysDetects(text, kind) ==
    LET ly == looks_yaml(text.chars)
        ls == looks_sh(text.chars)
    IN  IF ly /\ ~ls THEN review_service_yaml(text)
        ELSE IF ls /\ ~ly THEN review_deploy_sh(text)
        ELSE IF ly /\ ~review_service_yaml(text).ok THEN review_service_yaml(text)
        ELSE [ok |-> TRUE,
              kind |-> "auto",
              reports |-> <<IF ly THEN review_service_yaml(text) ELSE Skipped("yaml"),
                            IF ls THEN review_deploy_sh(text) ELSE Skipped("sh")>>]

\* review_cloudrun_config(text, kind): a report, an auto-report, or the
\* exception the descriptor rule set raises
review_cloudrun_config(text, kind) ==
    LET k == NormalKind(kind)
        ly == looks_yaml(text.chars)
        ls == looks_sh(text.chars)
    IN  IF k = s_yaml THEN review_service_yaml(text)
        ELSE IF k = s_sh THEN review_deploy_sh(text)
        ELSE IF ly /\ ~ls THEN review_service_yaml(text)
        ELSE IF ls /\ ~ly THEN review_deploy_sh(text)
        ELSE IF ly /\ ~review_service_yaml(text).ok THEN review_service_yaml(text)
        ELSE [ok |-> TRUE,
              kind |-> "auto",
              reports |-> <<IF ly THEN review_service_yaml(text) ELSE Skipped("yaml"),
                            IF ls THEN review_deploy_sh(text) ELSE Skipped("sh")>>]


----------------------------------------------------------------------------
\* Formatter (cloudrun_review_formatter.py)

\* code points in increasing order, for the comparison of strings
AsciiOrder ==
    DigitChars \o UpperChars \o <<"_">> \o LowerChars

Ord(c) ==
    CHOOSE i \in DOMAIN AsciiOrder : AsciiOrder[i] = c

\* Python's a < b on strings
StrLess(a, b) ==
    \/ \E i \in 1..Len(a) :
          /\ i <= Len(b)
          /\ \A j \in 1..(i - 1) : a[j] = b[j]
          /\ Ord(a[i]) < Ord(b[i])
    \/ Len(a) < Len(b) /\ \A j \in 1..Len(a) : a[j] = b[j]

\* is report an auto-report (kind "auto" with a list of reports)
IsAuto(report) ==
    report.kind = "auto"

\* r.get("findings") / r.get("summary") is truthy for a sub-report
HasFindings(r) ==
    "findings" \in DOMAIN r

HasSummary(r) ==
    "summary" \in DOMAIN r /\ \E s \in DOMAIN r.summary : TRUE

RECURSIVE FlattenBuckets(_, _)
\* the findings of a single report, bucket by bucket in SEV_ORDER, each
\* stamped with the severity of its bucket
FlattenBuckets(findings, sevs) ==
    IF Len(sevs) = 0 THEN <<>>
    ELSE [i \in DOMAIN findings[Head(sevs)] |->
              [findings[Head(sevs)][i] EXCEPT !.severity = Head(sevs)]]
         \o FlattenBuckets(findings, Tail(sevs))

RECURSIVE CollectFrom(_)
\* the auto branch of _collect_findings over the list of sub-reports
CollectFrom(reports) ==
    IF Len(reports) = 0 THEN <<>>
    ELSE (IF HasFindings(Head(reports))
          THEN FlattenBuckets(Head(reports).findings, SEV_ORDER)
          ELSE <<>>)
         \o CollectFrom(Tail(reports))

\* _collect_findings(report)
collect_findings(report) ==
    IF IsAuto(report) THEN CollectFrom(report.reports)
    ELSE FlattenBuckets(report.findings, SEV_ORDER)

\* score of _top_risks
SeverityWeight(sev) ==
    CASE sev = "HIGH" -> 3
      [] sev = "MEDIUM" -> 2
      [] sev = "LOW" -> 1
      [] OTHER -> 0

\* the sort key without the code: findings of one severity stay in the
\* order they were collected
KeyLess_SeverityOnly(f, g) ==
    SeverityWeight(f.severity) > SeverityWeight(g.severity)

\* the sort key (-score, code) of f is strictly smaller than that of g
KeyLess(f, g) ==
    \/ SeverityWeight(f.severity) > SeverityWeight(g.severity)
    \/ /\ SeverityWeight(f.severity) = SeverityWeight(g.severity)
       /\ StrLess(f.code, g.code)

\* x inserted before the first element with a strictly larger key
InsertSorted(q, x) ==
    LET after == {i \in DOMAIN q : KeyLess(x, q[i])}
        at == IF after = {} THEN Len(q) + 1
              ELSE CHOOSE i \in after : \A j \in after : i <= j
    IN  SubSeq(q, 1, at - 1) \o <<x>> \o SubSeq(q, at, Len(q))

RECURSIVE SortedByKey(_)
\* sorted(findings, key=...): a stable sort
SortedByKey(q) ==
    IF Len(q) = 0 THEN <<>>
    ELSE InsertSorted(SortedByKey(SubSeq(q, 1, Len(q) - 1)), q[Len(q)])

\* the first n findings in the order they were collected
top_risks_Unsorted(findings, n) ==
    SubSeq(findings, 1, IF Len(findings) < n THEN Len(findings) ELSE n)

\* _top_risks(findings, n)
top_risks(findings, n) ==
    SubSeq(SortedByKey(findings), 1, IF Len(findings) < n THEN Len(findings) ELSE n)

\* n=3 in format_cloudrun_review
TopN ==
    3

RECURSIVE SumOver(_, _)
\* sum(s.get(sev, 0) for s in summaries)
SumOver(summaries, sev) ==
    IF Len(summaries) = 0 THEN 0
    ELSE Head(summaries)[sev] + SumOver(Tail(summaries), sev)

\* the summaries of the sub-reports that have one
Summaries(reports) ==
    LET kept == SelectSeq(reports, HasSummary)
    IN  [i \in DOMAIN kept |-> kept[i].summary]

\* the summary of the first sub-report taken for the whole auto-report
MergedSummary_FirstOnly(report) ==
    IF IsAuto(report)
    THEN [s \in Severities |->
             SumOver(SubSeq(Summaries(report.reports), 1, 1), s)]
    ELSE report.summary

\* summary of format_cloudrun_review (lines 44-53)
MergedSummary(report) ==
    IF IsAuto(report)
    THEN [s \in Severities |-> SumOver(Summaries(report.reports), s)]
    ELSE report.summary

\* a decision taken from the score instead of the HIGH count
Decision_ByScore(summary) ==
    IF summary["HIGH"] * 10 + summary["MEDIUM"] * 5 + summary["LOW"] * 2 + summary["INFO"] >= 10
    THEN "NO-GO" ELSE "GO"

\* go of format_cloudrun_review (line 58)
Decision(summary) ==
    IF summary["HIGH"] > 0 THEN "NO-GO" ELSE "GO"

RECURSIVE RiskLines(_)
\* the lines rendered for the top risks: the risk and its fix
RiskLines(top) ==
    IF Len(top) = 0 THEN <<>>
    ELSE <<[line |-> "risk", severity |-> Head(top).severity, code |-> Head(top).code],
           [line |-> "fix", code |-> Head(top).code]>>
         \o RiskLines(Tail(top))

\* the text with the next-step block rendered whatever the decision
Markdown_AlwaysNextStep(service, go, summary, top) ==
    <<[line |-> "title", service |-> service],
      [line |-> "decision", decision |-> go],
      [line |-> "summary", summary |-> summary],
      [line |-> "top_risks"]>>
    \o (IF Len(top) = 0 THEN <<[line |-> "none"]>> ELSE RiskLines(top))
    \o <<[line |-> "next_step_title"], [line |-> "next_step"]>>

\* the non-empty lines of the markdown text, each by what it renders
Markdown(service, go, summary, top) ==
    <<[line |-> "title", service |-> service],
      [line |-> "decision", decision |-> go],
      [line |-> "summary", summary |-> summary],
      [line |-> "top_risks"]>>
    \o (IF Len(top) = 0 THEN <<[line |-> "none"]>> ELSE RiskLines(top))
    \o (IF go = "NO-GO" THEN <<[line |-> "next_step_title"], [line |-> "next_step"]>>
        ELSE <<>>)

\* format_cloudrun_review(report)
format_cloudrun_review(report) ==
    LET summary == MergedSummary(report)
        service == IF IsAuto(report) THEN PyStr(s_multiple)
                   ELSE OrElse(report.service, PyStr(s_unknown))
        top == top_risks(collect_findings(report), TopN)
        go == Decision(summary)
    IN  [decision |-> go,
         summary |-> summary,
         top_risks |-> top,
         markdown |-> Markdown(service, go, summary, top)]


----------------------------------------------------------------------------
\* Inputs of the generator: config dicts with at most MaxKeys keys supplied

\* most keys a caller supplies in one config dict
MaxKeys ==
    2

\* largest instance count a caller asks for
MaxInst ==
    2

\* a value the guard rejects: "sk-" and SecretMinLen letters
SecretSample ==
    s_sk \o Rep("a", SecretMinLen)

\* one letter short of a match
NearSecretSample ==
    s_sk \o Rep("a", SecretMinLen - 1)

EnvOf(k, v) ==
    PyDict(<<[k |-> k, v |-> v]>>)

RefOf(fields) ==
    PyDict(<<[k |-> s_OPENAI_API_KEY, v |-> PyMap(fields)]>>)

ConfigKeys ==
    {"service_name", "region", "image", "service_account", "cpu", "memory",
     "env", "secret_env", "min_instances", "max_instances", "concurrency",
     "timeout_seconds", "ingress", "write_files"}

\* the values tried for each key
ConfigValues(k) ==
    CASE k = "service_name" -> {PyStr(<<>>), PyStr(SecretSample)}
      [] k = "region" -> {PyStr(s_us_central1), PyStr(SecretSample)}
      [] k = "image" -> {PyStr(s_image_real), PyStr(SecretSample)}
      [] k = "service_account" ->
            {PyStr(<<>>), PyNone, PyStr(s_sa_real), PyStr(SecretSample)}
      [] k = "cpu" -> {PyInt(2), PyStr(SecretSample)}
      [] k = "memory" -> {PyStr(s_1Gi)}
      [] k = "env" ->
            {PyDict(<<>>),
             EnvOf(s_API_TOKEN, PyStr(s_hello)),
             EnvOf(s_API_TOKEN, PyStr(SecretSample)),
             EnvOf(s_API_TOKEN, PyStr(NearSecretSample)),
             EnvOf(s_FOO, PyStr(SecretSample)),
             EnvOf(s_FOO, PyInt(5)),
             EnvOf(SecretSample, PyStr(s_hello)),
             PyDict(<<[k |-> s_FOO, v |-> PyStr(s_hello)],
                      [k |-> s_API_TOKEN, v |-> PyStr(SecretSample)]>>)}
      [] k = "secret_env" ->
            {RefOf("secret" :> PyStr(s_openai_api_key)),
             RefOf(("secret" :> PyStr(<<>>)) @@ ("version" :> PyStr(s_latest))),
             RefOf(("secret" :> PyStr(s_openai_api_key)) @@ ("version" :> PyStr(<<>>))),
             RefOf(EmptyMap),
             PyDict(<<[k |-> s_OPENAI_API_KEY,
                       v |-> PyMap("secret" :> PyStr(s_openai_api_key))],
                      [k |-> s_API_TOKEN,
                       v |-> PyMap(("secret" :> PyStr(s_openai_api_key)) @@
                                   ("version" :> PyStr(<<>>)))]>>)}
      [] k = "min_instances" -> {PyInt(n) : n \in (-1)..MaxInst}
      [] k = "max_instances" -> {PyInt(n) : n \in (-1)..MaxInst}
      [] k = "concurrency" -> {PyInt(0), PyInt(20), PyStr(s_abc)}
      [] k = "timeout_seconds" -> {PyInt(0), PyInt(1000)}
      [] k = "ingress" -> {PyStr(s_internal), PyStr(s_internal_lb), PyStr(s_internal_spec_lb)}
      [] k = "write_files" -> {PyBool(FALSE)}

RECURSIVE ConfigDictsOver(_)
\* the config dicts supplying exactly the keys of S
ConfigDictsOver(S) ==
    IF S = {} THEN {EmptyMap}
    ELSE LET k == CHOOSE j \in S : TRUE
         IN  {(k :> v) @@ d : v \in ConfigValues(k), d \in ConfigDictsOver(S \ {k})}

ConfigDicts ==
    UNION {ConfigDictsOver(S) : S \in {T \in SUBSET ConfigKeys : Cardinality(T) <= MaxKeys}}

----------------------------------------------------------------------------
\* Inputs of the reviewer: descriptors, scripts and texts with markers

\* most fields of a descriptor that are edited at once
MaxEdits ==
    1

\* most flags appended to the deploy command of a script
MaxFlags ==
    2

\* a field left out of the document / a field assembled from its parts
Absent ==
    [t |-> "absent"]

Built ==
    [t |-> "built"]

\* the dict holding the keys of f whose value is not Absent
KeepPresent(f) ==
    PyMap([k \in {j \in DOMAIN f : f[j] # Absent} |-> f[k]])

\* env entries of a container
InlineEnv(name, value) ==
    PyMap(("name" :> PyStr(name)) @@ ("value" :> value))

SecretRefEnv(name) ==
    PyMap(("name" :> PyStr(name)) @@
          ("valueFrom" :> PyMap("secretKeyRef" :>
               PyMap(("name" :> PyStr(s_openai_api_key)) @@ ("key" :> PyStr(s_latest))))))

FullLimits ==
    PyMap("limits" :> PyMap(("cpu" :> PyStr(s_one)) @@ ("memory" :> PyStr(s_512Mi))))

\* the descriptor whose fields are the slots of s
BuildDoc(s) ==
    LET c0 == IF s.c0 # Built THEN s.c0
              ELSE KeepPresent(("image" :> s.image) @@ ("env" :> s.env) @@
                               ("resources" :> s.resources))
        containers == IF s.containers # Built THEN s.containers ELSE PyList(<<c0>>)
        spec == IF s.spec # Built THEN s.spec
                ELSE KeepPresent(("serviceAccountName" :> s.sa) @@
                                 ("containerConcurrency" :> s.conc) @@
                                 ("timeoutSeconds" :> s.timeout) @@
                                 ("containers" :> containers))
        ann == IF s.annotations # Built THEN s.annotations
               ELSE KeepPresent(("run.googleapis.com/ingress" :> s.ingress) @@
                                ("autoscaling.knative.dev/minScale" :> s.minScale) @@
                                ("autoscaling.knative.dev/maxScale" :> s.maxScale) @@
                                ("run.googleapis.com/cpu-throttling" :> s.throttling))
    IN  IF s.doc # Built THEN s.doc
        ELSE PyMap(("apiVersion" :> PyStr(s_serving_v1)) @@
                   ("kind" :> PyStr(s_Service)) @@
                   ("metadata" :> KeepPresent(("name" :> s.name) @@ ("labels" :> s.labels))) @@
                   ("spec" :> PyMap("template" :> KeepPresent(
                       ("metadata" :> KeepPresent("annotations" :> ann)) @@
                       ("spec" :> spec)))))

\* a descriptor with no finding above INFO
HardenedSlots ==
    [doc |-> Built, name |-> PyStr(s_cloudops_agent),
     labels |-> PyMap(("app" :> PyStr(s_app)) @@ ("env" :> PyStr(s_prod))),
     annotations |-> Built, ingress |-> PyStr(s_internal),
     minScale |-> PyStr(s_zero), maxScale |-> PyStr(s_three), throttling |-> Absent,
     spec |-> Built, sa |-> PyStr(s_sa_real), conc |-> PyInt(20), timeout |-> PyInt(300),
     containers |-> Built, c0 |-> Built, image |-> PyStr(s_image_real),
     env |-> PyList(<<SecretRefEnv(s_OPENAI_API_KEY)>>), resources |-> FullLimits]

\* no service account, a real image, concurrency 80, no secret reference
RiskySlots ==
    [doc |-> Built, name |-> PyStr(s_cloudops_agent), labels |-> Absent,
     annotations |-> Built, ingress |-> Absent,
     minScale |-> Absent, maxScale |-> Absent, throttling |-> Absent,
     spec |-> Built, sa |-> Absent, conc |-> PyInt(80), timeout |-> Absent,
     containers |-> Built, c0 |-> Built, image |-> PyStr(s_image_real),
     env |-> PyList(<<InlineEnv(s_FOO, PyStr(s_bar))>>), resources |-> Absent]

BaseSlots ==
    {HardenedSlots, RiskySlots}

SlotNames ==
    DOMAIN HardenedSlots

\* the values an edit gives to a slot
SlotValues(slot) ==
    CASE slot = "doc" -> {PyNone, PyStr(s_hello)}
      [] slot = "name" -> {Absent, PyInt(5), PyStr(<<>>)}
      [] slot = "labels" ->
            {Absent, PyNone, PyStr(s_app), PyList(<<PyStr(s_app)>>),
             PyMap("app" :> PyStr(s_app))}
      [] slot = "annotations" -> {Absent, PyNone, PyStr(s_abc), PyList(<<PyStr(s_abc)>>)}
      [] slot = "ingress" -> {Absent, PyStr(s_all), PyStr(<<>>), PyStr(s_internal_lb)}
      [] slot = "minScale" ->
            {Absent, PyNone, PyStr(s_zero), PyStr(s_two), PyStr(s_two_padded), PyInt(2),
             PyStr(s_abc), PyBool(TRUE), PyFloat(s_1_5)}
      [] slot = "maxScale" ->
            {Absent, PyNone, PyStr(s_three), PyInt(3), PyStr(s_abc), PyFloat(s_1_5)}
      [] slot = "throttling" -> {Absent, PyStr(s_false), PyBool(FALSE), PyStr(s_true)}
      [] slot = "spec" -> {Absent, PyNone, PyStr(s_abc), PyList(<<PyStr(s_abc)>>)}
      [] slot = "sa" ->
            {Absent, PyNone, PyStr(<<>>), PyStr(s_sa_real),
             PyStr(s_one \o s_compute_sa_suffix), PyInt(123), PyList(<<PyStr(s_sa_real)>>)}
      [] slot = "conc" ->
            {Absent, PyInt(20), PyInt(49), PyInt(50), PyInt(80), PyStr(s_abc), PyFloat(s_1_5)}
      [] slot = "timeout" ->
            {Absent, PyInt(300), PyInt(900), PyInt(901), PyStr(s_abc), PyBool(TRUE)}
      [] slot = "containers" ->
            {Absent, PyNone, PyList(<<>>), PyStr(s_abc), PyInt(1),
             PyMap("image" :> PyStr(s_image_real)),
             PyList(<<PyMap(("image" :> PyStr(s_image_real)) @@
                            ("env" :> PyList(<<SecretRefEnv(s_OPENAI_API_KEY)>>)) @@
                            ("resources" :> FullLimits)),
                      PyMap(("image" :> PyStr(s_image_real)) @@
                            ("env" :> PyList(<<InlineEnv(s_API_KEY, PyStr(s_abc123))>>)))>>)}
      [] slot = "c0" -> {PyNone, PyStr(s_abc), PyList(<<PyStr(s_abc)>>), PyInt(1)}
      [] slot = "image" ->
            {Absent, PyNone, PyStr(<<>>), PyStr(s_image_real), PyInt(5),
             PyStr(s_IMAGE_PLACEHOLDER), PyStr(s_image_real \o s_IMAGE_PLACEHOLDER)}
      [] slot = "env" ->
            {Absent, PyNone, PyList(<<>>), PyStr(s_abc), PyInt(1),
             PyMap("name" :> PyStr(s_API_KEY)),
             PyList(<<PyStr(s_API_KEY)>>),
             PyList(<<InlineEnv(s_FOO, PyStr(s_sk \o Rep("a", SecretMinLen)))>>),
             PyList(<<InlineEnv(s_API_TOKEN, PyStr(s_sk \o Rep("a", SecretMinLen)))>>),
             PyList(<<InlineEnv(s_API_KEY, PyStr(s_abc123))>>),
             PyList(<<InlineEnv(s_api_key_lc, PyStr(s_abc123))>>),
             PyList(<<InlineEnv(s_db_password, PyInt(5))>>),
             PyList(<<InlineEnv(s_API_KEY, PyStr(<<>>))>>),
             PyList(<<InlineEnv(s_FOO, PyStr(s_bar)), InlineEnv(s_API_KEY, PyStr(s_abc123))>>),
             PyList(<<PyMap("value" :> PyStr(s_abc123))>>),
             PyList(<<PyMap(("name" :> PyInt(5)) @@ ("value" :> PyStr(s_abc123)))>>),
             PyList(<<SecretRefEnv(s_FOO)>>),
             PyList(<<PyMap(("name" :> PyStr(s_FOO)) @@ ("valueFrom" :> PyStr(s_abc)))>>),
             PyList(<<PyMap(("name" :> PyStr(s_FOO)) @@ ("valueFrom" :> PyNone))>>),
             PyList(<<PyMap(("name" :> PyStr(s_FOO)) @@ ("valueFrom" :> PyMap(EmptyMap)))>>),
             PyList(<<SecretRefEnv(s_FOO),
                      PyMap(("name" :> PyStr(s_FOO)) @@ ("valueFrom" :> PyStr(s_abc)))>>)}
      [] slot = "resources" ->
            {Absent, PyNone, FullLimits, PyStr(s_abc),
             PyMap("limits" :> PyStr(s_abc)),
             PyMap("limits" :> PyMap("cpu" :> PyStr(s_one)))}

RECURSIVE EditsOver(_, _)
\* the slot records that differ from base at most on the slots of S
EditsOver(base, S) ==
    IF S = {} THEN {base}
    ELSE LET k == CHOOSE j \in S : TRUE
         IN  UNION {{[b EXCEPT ![k] = v] : v \in SlotValues(k)} :
                       b \in EditsOver(base, S \ {k})}

\* the slot records reached from a base by at most MaxEdits edits
SlotRecords ==
    UNION {EditsOver(base, S) :
              base \in BaseSlots,
              S \in {T \in SUBSET SlotNames : Cardinality(T) <= MaxEdits}}

\* a text under review: the characters the marker and flag searches read,
\* and the node tree the YAML parser makes of the whole text ("error": none).
\* The lines of a descriptor below its two header lines hold no marker.
DescriptorText(doc) ==
    [chars |-> IF doc.t = "map" THEN s_descriptor_head ELSE DumpScalar(doc).v,
     tree |-> DumpNode(doc)]

DescriptorTexts ==
    {DescriptorText(BuildDoc(s)) : s \in SlotRecords}

\* config dicts whose build succeeds, and the service.yaml texts built
SampleConfigs ==
    {d \in UNION {ConfigDictsOver(S) :
                     S \in {{}, {"ingress"}, {"service_account"}, {"env"}, {"secret_env"}}} :
        generate_service_yaml(CloudRunConfig(d)).ok}

GeneratedTexts ==
    {[chars |-> s_descriptor_head, tree |-> generate_service_yaml(CloudRunConfig(d)).v.tree] :
        d \in SampleConfigs}

\* the flags a script appends to its deploy command
FlagFragments ==
    {s_fr_allow, s_fr_no_allow, s_fr_sa, s_fr_sa_compute, s_fr_env_key, s_fr_env_plain,
     s_fr_env_split, s_fr_secrets, s_fr_min, s_fr_max, s_fr_conc, s_fr_timeout, s_fr_boost}

RECURSIVE FlagRuns(_)
\* the texts of n flags, each flag after the ones before it
FlagRuns(n) ==
    IF n = 0 THEN {<<>>}
    ELSE {r \o f : r \in FlagRuns(n - 1), f \in FlagFragments}

\* a script: one scalar for the YAML parser
ScriptText(chars) ==
    [chars |-> chars, tree |-> [t |-> "plain", v |-> chars]]

ScriptTexts ==
    {ScriptText(s_deploy_cmd \o r) : r \in UNION {FlagRuns(n) : n \in 0..MaxFlags}}

HeaderTree ==
    [t |-> "map", v |-> ("apiVersion" :> [t |-> "plain", v |-> s_v1]) @@
                        ("kind" :> [t |-> "plain", v |-> s_Service])]

NoParse ==
    [t |-> "error"]

\* texts that differ in the markers they hold
MarkerTexts ==
    {[chars |-> <<>>, tree |-> [t |-> "plain", v |-> <<>>]],
     ScriptText(s_hello),
     ScriptText(s_deploy_cmd),
     ScriptText(s_t_shebang_script),
     [chars |-> s_t_api_spaced, tree |-> [t |-> "map", v |-> "apiVersion" :> [t |-> "plain", v |-> s_v1]]],
     [chars |-> s_t_inline_markers, tree |-> NoParse],
     [chars |-> s_descriptor_head, tree |-> HeaderTree],
     [chars |-> s_t_both, tree |-> HeaderTree],
     [chars |-> s_t_broken, tree |-> NoParse],
     [chars |-> s_t_both_broken, tree |-> NoParse]}

\* the kind arguments tried on them
Kinds ==
    {PyNone, PyStr(<<>>), PyStr(s_auto), PyStr(s_yaml), PyStr(s_sh), PyStr(s_YAML_padded),
     PyStr(s_json)}

\* the calls of review_cloudrun_config(text, kind)
ReviewInputs ==
    (DescriptorTexts \X {PyStr(s_yaml)})
    \cup (GeneratedTexts \X {PyStr(s_yaml), PyStr(s_auto)})
    \cup (ScriptTexts \X {PyStr(s_sh)})
    \cup (MarkerTexts \X Kinds)

----------------------------------------------------------------------------
\* File read of cloudrun_review_report (cloudrun_reviewer.py, runtime.py,
\* utils.py).  A path is the sequence of its components below "/"; the
\* repository is installed at /app.

\* get_run_env(): Cloud Run sets K_SERVICE
get_run_env(k_service) ==
    IF k_service THEN "cloudrun" ELSE "local"

\* the files of the machine; /workspace is there when a volume is mounted
FilePaths(mounted) ==
    {<<"app", "service.yaml">>, <<"app", "deploy", "deploy.sh">>,
     <<"tmp", "service.yaml">>, <<"etc", "passwd">>}
    \cup (IF mounted THEN {<<"workspace", "service.yaml">>} ELSE {})

\* ... and its directories
DirPaths(mounted) ==
    {<<>>, <<"app">>, <<"app", "deploy">>, <<"tmp">>, <<"etc">>}
    \cup (IF mounted THEN {<<"workspace">>} ELSE {})

\* the text a file holds
FileText(p) ==
    CASE p = <<"app", "deploy", "deploy.sh">> -> ScriptText(s_deploy_cmd \o s_fr_allow)
      [] p = <<"etc", "passwd">> -> ScriptText(s_hello)
      [] OTHER -> [chars |-> s_descriptor_head, tree |-> HeaderTree]

RECURSIVE ResolveInto(_, _)
\* the components of rest appended to done, each ".." dropping the one before
ResolveInto(done, rest) ==
    IF Len(rest) = 0 THEN done
    ELSE IF Head(rest) = ".."
    THEN ResolveInto(SubSeq(done, 1, Len(done) - 1), Tail(rest))
    ELSE ResolveInto(done \o <<Head(rest)>>, Tail(rest))

\* Path(path).expanduser().resolve() of an absolute path
resolve(path) ==
    ResolveInto(<<>>, path)

\* p.relative_to(root) does not raise
IsRelativeTo(p, root) ==
    Len(root) <= Len(p) /\ SubSeq(p, 1, Len(root)) = root

\* pick_workspace_root(): WORKSPACE_ROOT when set and existing, else
\* /workspace when it exists, else the repository root
pick_workspace_root(ws, mounted) ==
    IF ws # PyNone /\ Len(ws.v) > 0
          /\ resolve(ws.v) \in DirPaths(mounted) \cup FilePaths(mounted)
    THEN resolve(ws.v)
    ELSE IF mounted THEN <<"workspace">>
    ELSE <<"app">>

\* "Cloud Run can only read files under ..." / "File not found: ..."
s_msg_outside ==
    <<"o","u","t","s","i","d","e">>

s_msg_not_found ==
    <<"n","o","t"," ","f","o","u","n","d">>

\* _safe_read_file(path): the text read, or the ValueError raised
safe_read_file(path, run_env, ws, mounted) ==
    LET p == resolve(path)
        root == pick_workspace_root(ws, mounted)
    IN  IF ~IsRelativeTo(p, root) /\ run_env = "cloudrun"
        THEN Raised("ValueError", s_msg_outside)
        ELSE IF p \notin FilePaths(mounted)
        THEN Raised("ValueError", s_msg_not_found)
        ELSE [ok |-> TRUE, v |-> FileText(p), read |-> p]

\* the paths cloudrun_review_report is called with
ReadPaths ==
    {<<"app", "service.yaml">>, <<"app", "missing.yaml">>, <<"app", "deploy">>,
     <<"app", "deploy", "deploy.sh">>, <<"tmp", "service.yaml">>, <<"etc", "passwd">>,
     <<"app", "..", "etc", "passwd">>, <<"tmp", "..", "app", "service.yaml">>,
     <<"workspace", "service.yaml">>}

\* the values of WORKSPACE_ROOT: unset, /app, /tmp and a directory that
\* does not exist
WorkspaceRootValues ==
    {PyNone, [t |-> "path", v |-> <<"app">>], [t |-> "path", v |-> <<"tmp">>],
     [t |-> "path", v |-> <<"data">>]}

\* the calls of cloudrun_review_report and the machines they run on
ReadCalls ==
    [path : ReadPaths, k_service : BOOLEAN, ws : WorkspaceRootValues, mounted : BOOLEAN]

----------------------------------------------------------------------------
\* State

VARIABLES
    pc,          \* position of the running call
    input_json,  \* argument of cloudrun_config_generator_tool
    cfg,         \* the CloudRunConfig built from it
    files,       \* documents generate_cloudrun_templates has produced so far
    written,     \* files write_templates has written, by name
    result,      \* what the call returned or raised
    text,        \* the text cloudrun_review_report has read
    kind,        \* its kind argument
    ran,         \* the rule sets review_cloudrun_config has called, in order
    raw,         \* what review_cloudrun_config returned or raised
    review,      \* what format_cloudrun_review returned
    call,        \* the call of cloudrun_review_report and the machine it runs on
    reads        \* the files _safe_read_file has read

vars ==
    <<pc, input_json, cfg, files, written, result, text, kind, ran, raw, review, call, reads>>

NoValue ==
    [ok |-> FALSE, type |-> "none", field |-> <<>>]

Running ==
    [status |-> "running"]

\* the empty dict of file contents
NoFiles ==
    [n \in {} |-> PyNone]

\* the variables of the generator / of the reviewer
genVars ==
    <<input_json, cfg, files, written, result>>

revVars ==
    <<text, kind, ran, raw, review>>

readVars ==
    <<call, reads>>

NoText ==
    [chars |-> <<>>, tree |-> [t |-> "error"]]

TemplateNames ==
    {"service.yaml", "cloudrun_deploy.sh", "README_cloudrun.md"}

\* cloudrun_config_generator_tool(input_json) is called
InitGen ==
    /\ pc = "tool_called"
    /\ input_json \in ConfigDicts
    /\ cfg = NoValue
    /\ files = NoFiles
    /\ written = NoFiles
    /\ result = Running
    /\ text = NoText
    /\ kind = PyNone
    /\ ran = <<>>
    /\ raw = NoValue
    /\ review = NoValue
    /\ call = NoValue
    /\ reads = {}

\* generate_cloudrun_templates, lines 337-361: dict -> CloudRunConfig
BuildConfig ==
    /\ pc = "tool_called"
    /\ LET c == CloudRunConfig(input_json)
       IN  IF c.ok
           THEN /\ cfg' = c
                /\ pc' = "config_built"
                /\ UNCHANGED result
           ELSE /\ pc' = "raised"
                /\ result' = [status |-> "raised", error |-> c]
                /\ UNCHANGED cfg
    /\ UNCHANGED <<input_json, files, written>>
    /\ UNCHANGED revVars
    /\ UNCHANGED readVars

\* line 363: service_yaml = generate_service_yaml(cfg)
GenerateServiceYaml ==
    /\ pc = "config_built"
    /\ LET y == generate_service_yaml(cfg)
       IN  IF y.ok
           THEN /\ files' = ("service.yaml" :> y.v)
                /\ pc' = "yaml_generated"
                /\ UNCHANGED result
           ELSE /\ pc' = "raised"
                /\ result' = [status |-> "raised", error |-> y]
                /\ UNCHANGED files
    /\ UNCHANGED <<input_json, cfg, written>>
    /\ UNCHANGED revVars
    /\ UNCHANGED readVars

\* line 364: deploy_sh = generate_deploy_sh(cfg)
GenerateDeploySh ==
    /\ pc = "yaml_generated"
    /\ files' = files @@ ("cloudrun_deploy.sh" :> generate_deploy_sh(cfg))
    /\ pc' = "sh_generated"
    /\ UNCHANGED <<input_json, cfg, written, result>>
    /\ UNCHANGED revVars
    /\ UNCHANGED readVars

\* lines 365-371: readme_md = generate_readme_md(cfg); return the three
GenerateReadme ==
    /\ pc = "sh_generated"
    /\ files' = files @@ ("README_cloudrun.md" :> generate_readme_md(cfg))
    /\ pc' = "templates_returned"
    /\ UNCHANGED <<input_json, cfg, written, result>>
    /\ UNCHANGED revVars
    /\ UNCHANGED readVars

\* write_templates(files): every file of the dict is written
write_templates(fs) ==
    fs

\* cloudrun_config_generator_tool, lines 400-415
ToolReturn ==
    /\ pc = "templates_returned"
    /\ written' = IF Truthy(Get(input_json, "write_files", PyBool(TRUE)))
                  THEN write_templates(files)
                  ELSE NoFiles
    /\ result' = [status |-> "returned", files |-> files]
    /\ pc' = "tool_returned"
    /\ UNCHANGED <<input_json, cfg, files>>
    /\ UNCHANGED revVars
    /\ UNCHANGED readVars

\* cloudrun_review_report has read the file: text and kind are at hand
InitRev ==
    /\ pc = "text_read"
    /\ \E inp \in ReviewInputs : text = inp[1] /\ kind = inp[2]
    /\ ran = <<>>
    /\ raw = NoValue
    /\ review = NoValue
    /\ input_json = EmptyMap
    /\ cfg = NoValue
    /\ files = NoFiles
    /\ written = NoFiles
    /\ result = Running
    /\ call = NoValue
    /\ reads = {}

\* line 381: raw = review_cloudrun_config(text=text, kind=kind)
ReviewConfig ==
    /\ pc = "text_read"
    /\ raw' = review_cloudrun_config(text, kind)
    /\ ran' = RuleSetsRun(text, kind)
    /\ pc' = IF raw'.ok THEN "reviewed" ELSE "review_raised"
    /\ UNCHANGED <<text, kind, review>>
    /\ UNCHANGED genVars
    /\ UNCHANGED readVars

\* line 382: report = format_cloudrun_review(raw)
FormatReview ==
    /\ pc = "reviewed"
    /\ review' = format_cloudrun_review(raw)
    /\ pc' = "formatted"
    /\ UNCHANGED <<text, kind, ran, raw>>
    /\ UNCHANGED genVars
    /\ UNCHANGED readVars

\* cloudrun_review_report(path, kind) is called
InitRead ==
    /\ pc = "report_called"
    /\ call \in ReadCalls
    /\ reads = {}
    /\ kind \in {PyStr(s_auto), PyStr(s_yaml)}
    /\ text = NoText
    /\ ran = <<>>
    /\ raw = NoValue
    /\ review = NoValue
    /\ input_json = EmptyMap
    /\ cfg = NoValue
    /\ files = NoFiles
    /\ written = NoFiles
    /\ result = Running

\* line 380: text = _safe_read_file(path)
SafeReadFile ==
    /\ pc = "report_called"
    /\ LET r == safe_read_file(call.path, get_run_env(call.k_service), call.ws, call.mounted)
       IN  IF r.ok
           THEN /\ text' = r.v
                /\ reads' = reads \cup {r.read}
                /\ pc' = "text_read"
                /\ UNCHANGED result
           ELSE /\ pc' = "read_raised"
                /\ result' = [status |-> "raised", error |-> r]
                /\ UNCHANGED <<text, reads>>
    /\ UNCHANGED <<call, kind, ran, raw, review>>
    /\ UNCHANGED <<input_json, cfg, files, written>>

Init ==
    InitGen \/ InitRev \/ InitRead

Next ==
    \/ BuildConfig
    \/ GenerateServiceYaml
    \/ GenerateDeploySh
    \/ GenerateReadme
    \/ ToolReturn
    \/ SafeReadFile
    \/ ReviewConfig
    \/ FormatReview

Spec ==
    Init /\ [][Next]_vars

----------------------------------------------------------------------------
\* Claims about the generator

\* the call has produced at least the descriptor
Generated ==
    pc \in {"yaml_generated", "sh_generated", "templates_returned", "tool_returned"}

\* the env map the call was given holds key k with a non-empty string value
EnvGiven(k) ==
    /\ "env" \in DOMAIN input_json
    /\ input_json["env"].t = "dict"
    /\ \E i \in DOMAIN input_json["env"].v :
          /\ input_json["env"].v[i].k = k
          /\ input_json["env"].v[i].v.t = "str"
          /\ Len(input_json["env"].v[i].v.v) > 0

\* the value the env map of the call gives to key k
EnvValue(k) ==
    LET e == input_json["env"].v
    IN  e[CHOOSE i \in DOMAIN e : e[i].k = k].v

\* the name validate gives the env field k in its message
EnvField(k) ==
    s_env_open \o k \o s_env_close

\* the checks validate makes before it reaches the env map all pass
ChecksBeforeEnvPass ==
    /\ cfg # NoValue
    /\ Truthy(cfg.service_name)
    /\ cfg.ingress \in IngressModes
    /\ cfg.concurrency > 0
    /\ cfg.timeout_seconds > 0
    /\ cfg.min_instances >= 0
    /\ cfg.max_instances >= 0
    /\ ~(cfg.max_instances # 0 /\ cfg.min_instances > cfg.max_instances)

\* C3 as stated: every non-empty plaintext value under the env key API_TOKEN
\* makes build fail with an error naming env[API_TOKEN], and no document is
\* returned.
C3_AnyValueUnderApiTokenFails ==
    EnvGiven(s_API_TOKEN) =>
        /\ ~Generated
        /\ (pc = "raised" /\ ChecksBeforeEnvPass
                => result.error.field = EnvField(s_API_TOKEN))

\* C3 amended: a value under API_TOKEN that matches the secret patterns makes
\* build fail without a document, and the error names env[API_TOKEN] when no
\* earlier check of validate fails and no earlier env entry is rejected; a
\* value that matches no pattern is never the reason build fails.
C3_SecretValueUnderApiTokenFails ==
    EnvGiven(s_API_TOKEN) =>
        IF SUSPECT_SECRET_RE_search(EnvValue(s_API_TOKEN).v)
        THEN /\ ~Generated
             /\ files = NoFiles /\ written = NoFiles
             /\ (pc = "raised" /\ ChecksBeforeEnvPass
                    /\ (\A i \in DOMAIN cfg.env :
                          (cfg.env[i].k # s_API_TOKEN =>
                              ~assert_no_secret_value_raises(cfg.env[i].v)))
                    => result.error.field = EnvField(s_API_TOKEN))
        ELSE pc = "raised" => result.error.field # EnvField(s_API_TOKEN)

\* C3 witness: build was given API_TOKEN with a secret-shaped value and has
\* raised the error naming env[API_TOKEN].
C3_Witness ==
    /\ EnvGiven(s_API_TOKEN)
    /\ SUSPECT_SECRET_RE_search(EnvValue(s_API_TOKEN).v)
    /\ pc = "raised"
    /\ result.error.field = EnvField(s_API_TOKEN)

\* C4 as stated: no document of a successful build contains a match of the
\* secret patterns, whichever input field the text came from.
C4_NoSecretInAnyDocument ==
    \A n \in DOMAIN files : ~ContentHasSecret(files[n])

\* C5 as stated: build succeeds only if both instance bounds are
\* non-negative and min_instances <= max_instances.
C5_BoundsOrderedOnSuccess ==
    Generated =>
        /\ cfg.min_instances >= 0
        /\ cfg.max_instances >= 0
        /\ cfg.min_instances <= cfg.max_instances

\* the config dict breaks a conversion or an invariant validate checks
InvalidInput ==
    \/ ~CloudRunConfig(input_json).ok
    \/ ~validate(CloudRunConfig(input_json)).ok

\* C6: generation is all-or-nothing.  A config dict that breaks a validated
\* invariant yields no document and no written file; a raise leaves nothing
\* behind; files are written only once all three documents exist, and they
\* are those documents.
C6_AllOrNothing ==
    /\ InvalidInput => files = NoFiles /\ written = NoFiles /\ ~Generated
    /\ pc = "raised" => files = NoFiles /\ written = NoFiles
    /\ written # NoFiles =>
          /\ ~InvalidInput
          /\ DOMAIN files = TemplateNames
          /\ written = files
    /\ pc = "tool_returned" => DOMAIN result.files = TemplateNames

\* C6 witness: validate rejected the config, and nothing was produced or
\* written.
C6_Witness ==
    /\ pc = "raised"
    /\ cfg # NoValue
    /\ ~validate(cfg).ok
    /\ files = NoFiles
    /\ written = NoFiles

----------------------------------------------------------------------------
\* Claims about the reviewer and the formatter

\* review_cloudrun_config has returned or raised
ReviewDone ==
    pc \in {"reviewed", "review_raised", "formatted"}

\* the descriptor rule set was the first rule set called
DescriptorRuleSetRan ==
    ReviewDone /\ Len(ran) > 0 /\ ran[1] = "yaml"

\* number of findings of severity sev in a report; a skip marker has none
CountIn(r, sev) ==
    IF "findings" \in DOMAIN r THEN Len(r.findings[sev]) ELSE 0

\* ... summed over the sub-reports of an auto-report
CountAll(r, sev) ==
    IF r.kind = "auto" THEN CountIn(r.reports[1], sev) + CountIn(r.reports[2], sev)
    ELSE CountIn(r, sev)

\* C1: the decision of a formatted review is NO-GO exactly when the report,
\* or some sub-report of the auto-report, holds a HIGH finding; findings of
\* the other severities never change it.
C1_NoGoIffHigh ==
    pc = "formatted" =>
        (review.decision = "NO-GO" <=> CountAll(raw, "HIGH") > 0)

\* an auto-report whose descriptor sub-report alone holds HIGH findings
C1_Witness ==
    /\ pc = "formatted"
    /\ raw.kind = "auto"
    /\ CountIn(raw.reports[1], "HIGH") > 0
    /\ CountIn(raw.reports[2], "HIGH") = 0
    /\ CountIn(raw.reports[2], "MEDIUM") > 1
    /\ review.decision = "NO-GO"

\* the document the descriptor rule set read, and its report
ReviewedDoc ==
    LoadNode(text.tree)

DescriptorReport ==
    IF raw.kind = "auto" THEN raw.reports[1] ELSE raw

\* the codes of a report's findings
CodesOf(r) ==
    UNION {{r.findings[s][i].code : i \in DOMAIN r.findings[s]} : s \in Severities}

\* the env entries of the first container that are mappings with an inline
\* string value
InlineEntries ==
    LET containers == DocContainers(ReviewedDoc)
        c0 == FirstContainer(containers)
        entries == IF containers.t = "list" /\ Len(containers.v) > 0 /\ c0.t = "map"
                   THEN EnvEntries(c0) ELSE <<>>
    IN  {entries[i] : i \in {j \in DOMAIN entries :
                                /\ entries[j].t = "map"
                                /\ "value" \in DOMAIN entries[j].v
                                /\ entries[j].v["value"].t = "str"}}

\* C2: a reviewed descriptor whose first container holds an inline env value
\* that the generator's guard rejects has the finding YAML070, whatever the
\* name of the env var.
C2_GuardedValueFlagged ==
    (DescriptorRuleSetRan /\ raw.ok /\ text.tree.t # "error") =>
        \A e \in InlineEntries :
            assert_no_secret_value_raises(e.v["value"]) =>
                s_YAML070 \in CodesOf(DescriptorReport)

\* the value of a numeric field of the reviewed document, Absent without it
NumericField(field) ==
    LET holder == IF field \in {"minScale", "maxScale"}
                  THEN DocAnn(ReviewedDoc) ELSE DocSpec(ReviewedDoc)
        key == CASE field = "minScale" -> "autoscaling.knative.dev/minScale"
                 [] field = "maxScale" -> "autoscaling.knative.dev/maxScale"
                 [] field = "conc" -> "containerConcurrency"
                 [] field = "timeout" -> "timeoutSeconds"
    IN  IF holder.t = "map" /\ key \in DOMAIN holder.v THEN holder.v[key] ELSE Absent

\* the finding of the check that reads the field
FieldCode(field) ==
    CASE field = "minScale" -> s_YAML020
      [] field = "maxScale" -> s_YAML021
      [] field = "conc" -> s_YAML040
      [] field = "timeout" -> s_YAML041

\* the field is present and int(str(value)) fails
Unparsable(field) ==
    /\ NumericField(field) # Absent
    /\ ~ParseInt(ToStr(NumericField(field))).ok

\* C7: when a numeric field of the descriptor is present with a value that
\* is no integer, the review completes and has no finding from the check
\* that reads the field.
C7_UnparsableFieldSkipsCheck ==
    (DescriptorRuleSetRan /\ text.tree.t # "error") =>
        \A field \in {"minScale", "maxScale", "conc", "timeout"} :
            Unparsable(field) =>
                (raw.ok /\ FieldCode(field) \notin CodesOf(DescriptorReport))

\* C8: the review of a descriptor that parses returns a report, whatever
\* shape its fields have.
C8_ParsedDescriptorIsReviewed ==
    (DescriptorRuleSetRan /\ text.tree.t # "error") => raw.ok

\* C9: when the descriptor rule set runs on a text with no parse, the call
\* raises: there is no report and no decision.
C9_NoParseRaises ==
    (DescriptorRuleSetRan /\ text.tree.t = "error") =>
        /\ pc = "review_raised"
        /\ ~raw.ok
        /\ review = NoValue

\* auto-detection ran the descriptor rule set on a text with both markers
\* and no parse
C9_Witness ==
    /\ pc = "review_raised"
    /\ kind = PyStr(s_auto)
    /\ looks_yaml(text.chars)
    /\ looks_sh(text.chars)
    /\ text.tree.t = "error"
    /\ ran = <<"yaml">>
    /\ raw.type = "YAMLError"

\* the rule set a call is routed to directly: the forced kind, or under
\* "auto" the kind of the one marker present; "none" otherwise
RoutedKind ==
    IF kind = PyStr(s_yaml) THEN "yaml"
    ELSE IF kind = PyStr(s_sh) THEN "sh"
    ELSE IF kind # PyStr(s_auto) THEN "none"
    ELSE IF looks_yaml(text.chars) /\ ~looks_sh(text.chars) THEN "yaml"
    ELSE IF looks_sh(text.chars) /\ ~looks_yaml(text.chars) THEN "sh"
    ELSE "none"

\* C10: a call with kind "yaml" or "sh", or with kind "auto" on a text with
\* exactly one kind of marker, runs exactly that rule set, and what it
\* returns is that rule set's report, never an auto-report.
C10_DirectRoute ==
    (ReviewDone /\ RoutedKind # "none") =>
        /\ ran = <<RoutedKind>>
        /\ raw.ok => (raw.kind = RoutedKind /\ "findings" \in DOMAIN raw)

\* kind "yaml" forced on a text that holds the script marker only
C10_Witness ==
    /\ pc = "reviewed"
    /\ kind = PyStr(s_yaml)
    /\ looks_sh(text.chars)
    /\ ~looks_yaml(text.chars)
    /\ ran = <<"yaml">>
    /\ raw.kind = "yaml"

----------------------------------------------------------------------------
\* Claims about auto-detection, ranking and scores

\* the call asked for auto-detection
AutoKind ==
    ReviewDone /\ kind = PyStr(s_auto)

\* r is a rule set's report of kind k / the placeholder for kind k
FullReport(r, k) ==
    r.kind = k /\ "findings" \in DOMAIN r /\ "summary" \in DOMAIN r

Placeholder(r, k) ==
    r.kind = k /\ DOMAIN r \cap {"findings", "summary", "score"} = {} /\ r.skipped

\* C11: under kind "auto" the result returned is an auto-report exactly when
\* both kinds of marker or neither are in the text; its list holds the yaml
\* entry then the sh entry, a full report where the marker matched and the
\* placeholder where it did not, and only the rule sets of matched markers ran.
C11_AutoReportShape ==
    (AutoKind /\ raw.ok) =>
        LET ly == looks_yaml(text.chars)
            ls == looks_sh(text.chars)
        IN  /\ raw.kind = "auto" <=> (ly <=> ls)
            /\ ran = (IF ly THEN <<"yaml">> ELSE <<>>) \o (IF ls THEN <<"sh">> ELSE <<>>)
            /\ raw.kind = "auto" =>
                  /\ Len(raw.reports) = 2
                  /\ IF ly THEN FullReport(raw.reports[1], "yaml")
                     ELSE Placeholder(raw.reports[1], "yaml")
                  /\ IF ls THEN FullReport(raw.reports[2], "sh")
                     ELSE Placeholder(raw.reports[2], "sh")

\* an apiVersion header and a bash shebang: two full reports, none skipped
C11_Witness ==
    /\ AutoKind
    /\ pc = "reviewed"
    /\ ApiVersionLine(text.chars)
    /\ ShebangLine(text.chars)
    /\ raw.kind = "auto"
    /\ FullReport(raw.reports[1], "yaml")
    /\ FullReport(raw.reports[2], "sh")

\* the reports a result holds: itself, or the full sub-reports of an auto-report
ReportsIn(r) ==
    IF r.kind = "auto" THEN SelectSeq(r.reports, LAMBDA x : "findings" \in DOMAIN x)
    ELSE <<r>>

\* every finding of the result, with the severity of the bucket it is in
FindingsIn(r) ==
    UNION {{[severity |-> s, code |-> ReportsIn(r)[i].findings[s][j].code] :
               j \in DOMAIN ReportsIn(r)[i].findings[s]} :
           i \in DOMAIN ReportsIn(r), s \in Severities}

\* number of findings of the result
TotalIn(r) ==
    CountAll(r, "HIGH") + CountAll(r, "MEDIUM") + CountAll(r, "LOW") + CountAll(r, "INFO")

\* severity weight: HIGH > MEDIUM > LOW > INFO
Rank(sev) ==
    CHOOSE n \in 0..3 : SEV_ORDER[4 - n] = sev

\* f comes strictly before g under the key (-weight, code)
RanksBefore(f, g) ==
    \/ Rank(f.severity) > Rank(g.severity)
    \/ Rank(f.severity) = Rank(g.severity) /\ StrLess(f.code, g.code)

\* C12: top_risks holds min(3, number of findings) findings of the result,
\* in non-increasing severity and, within a severity, non-decreasing code;
\* no finding left out ranks strictly before one that is included.
C12_TopRisksRanked ==
    pc = "formatted" =>
        LET top == review.top_risks
            n == TotalIn(raw)
        IN  /\ Len(top) = (IF n < 3 THEN n ELSE 3)
            /\ \A i \in DOMAIN top : top[i] \in FindingsIn(raw)
            /\ \A i, j \in DOMAIN top : i < j => ~RanksBefore(top[j], top[i])
            /\ \A i, j \in DOMAIN top : i # j => top[i] # top[j]
            /\ \A f \in FindingsIn(raw) :
                  (\A i \in DOMAIN top : top[i] # f) =>
                      \A i \in DOMAIN top : ~RanksBefore(f, top[i])

\* an auto-report with more than three findings whose top risks come from
\* both sub-reports
C12_Witness ==
    /\ pc = "formatted"
    /\ raw.kind = "auto"
    /\ TotalIn(raw) > 3
    /\ Len(review.top_risks) = 3
    /\ \E i, j \in DOMAIN review.top_risks :
          /\ review.top_risks[i].code \in CodesOf(raw.reports[1])
          /\ review.top_risks[j].code \in CodesOf(raw.reports[2])

\* C13: in every report a rule set produced, summary[s] is the number of
\* findings in bucket s for each severity s, and score is
\* 10*summary[HIGH] + 5*summary[MEDIUM] + 2*summary[LOW] + 1*summary[INFO];
\* reports with equal bucket counts have equal scores.
C13_SummaryAndScore ==
    (ReviewDone /\ raw.ok) =>
        LET rs == ReportsIn(raw)
        IN  /\ \A i \in DOMAIN rs :
                  /\ DOMAIN rs[i].summary = Severities
                  /\ \A s \in Severities : rs[i].summary[s] = Len(rs[i].findings[s])
                  /\ rs[i].score = 10 * rs[i].summary["HIGH"] + 5 * rs[i].summary["MEDIUM"]
                                   + 2 * rs[i].summary["LOW"] + 1 * rs[i].summary["INFO"]
            /\ \A i, j \in DOMAIN rs :
                  (\A s \in Severities : Len(rs[i].findings[s]) = Len(rs[j].findings[s]))
                      => rs[i].score = rs[j].score

\* a report with findings of three severities and the score they weigh to
C13_Witness ==
    /\ ReviewDone
    /\ raw.ok
    /\ raw.kind # "auto"
    /\ raw.summary["HIGH"] > 0
    /\ raw.summary["MEDIUM"] > 1
    /\ raw.summary["LOW"] > 0
    /\ raw.score = 10 * raw.summary["HIGH"] + 5 * raw.summary["MEDIUM"] + 2 * raw.summary["LOW"]

----------------------------------------------------------------------------
\* Claims about the guard, the defaults and the validated fields

\* validate has run on the config
Validated ==
    cfg # NoValue /\ pc # "config_built"

\* the calls validate makes of the guard, in order (lines 126-128, 138, 139)
GuardCalls ==
    [i \in DOMAIN cfg.env |-> [field |-> EnvField(cfg.env[i].k), value |-> cfg.env[i].v]]
        \o <<[field |-> s_f_image, value |-> cfg.image],
             [field |-> s_f_service_account, value |-> cfg.service_account]>>

\* a string that contains a match of the pattern set
Secretish(v) ==
    v.t = "str" /\ SUSPECT_SECRET_RE_search(v.v)

\* validate gets as far as the i-th call of the guard
GuardReached(i) ==
    /\ ChecksBeforeEnvPass
    /\ \A j \in 1..(i - 1) : ~Secretish(GuardCalls[j].value)
    /\ i > Len(cfg.env) => \A r \in DOMAIN cfg.secret_env : ~BadRef(cfg.secret_env[r].v)

\* C14: the guard raises, naming the field it was given, exactly when the
\* value is a string containing a match of the pattern set; None and values
\* that are not strings pass; the guard changes nothing.
C14_GuardRaisesIffSecretString ==
    Validated =>
        /\ \A i \in DOMAIN GuardCalls :
              /\ (GuardReached(i) /\ Secretish(GuardCalls[i].value)) =>
                    /\ pc = "raised"
                    /\ result.error.type = "ValueError"
                    /\ result.error.field = GuardCalls[i].field
              /\ (pc = "raised" /\ result.error.field = GuardCalls[i].field) =>
                    Secretish(GuardCalls[i].value)
              /\ (GuardReached(i) /\ GuardCalls[i].value.t # "str") =>
                    ~(pc = "raised" /\ result.error.field = GuardCalls[i].field)
        /\ cfg = CloudRunConfig(input_json)
        /\ pc = "raised" => files = NoFiles /\ written = NoFiles

\* the guard let a value that is not a string pass and then raised on the
\* image
C14_Witness ==
    /\ Validated
    /\ pc = "raised"
    /\ result.error.field = s_f_image
    /\ Secretish(cfg.image)
    /\ \E i \in DOMAIN cfg.env : cfg.env[i].v.t = "int"

\* the generator tool was called (no review)
GenCall ==
    pc \in {"tool_called", "config_built", "raised"} \/ Generated \/ pc = "tool_returned"

\* the descriptor, read back from the service.yaml the call produced
Descriptor ==
    LoadNode(files["service.yaml"].tree)

\* annotation a of the revision template of the descriptor
DescriptorAnnotation(a) ==
    get_path(Descriptor, <<"spec", "template", "metadata", "annotations", a>>, PyNone)

\* field f of the revision spec of the descriptor
DescriptorSpecField(f) ==
    get_path(Descriptor, <<"spec", "template", "spec", f>>, PyNone)

\* C15: build with no optional field succeeds, and the descriptor has the
\* placeholder ${SERVICE_ACCOUNT} as service account, minimum instances 0,
\* maximum instances 3, concurrency 80 and timeout 300; each of these is
\* also what a call that leaves the field out gets.
C15_DefaultsOfBuild ==
    GenCall =>
        /\ input_json = EmptyMap => pc # "raised"
        /\ Generated =>
              /\ "service_account" \notin DOMAIN input_json =>
                    DescriptorSpecField("serviceAccountName") = PyStr(s_SERVICE_ACCOUNT_ph)
              /\ "min_instances" \notin DOMAIN input_json =>
                    DescriptorAnnotation("autoscaling.knative.dev/minScale") = PyStr(s_zero)
              /\ "max_instances" \notin DOMAIN input_json =>
                    DescriptorAnnotation("autoscaling.knative.dev/maxScale") = PyStr(s_three)
              /\ "concurrency" \notin DOMAIN input_json =>
                    DescriptorSpecField("containerConcurrency") = PyInt(80)
              /\ "timeout_seconds" \notin DOMAIN input_json =>
                    DescriptorSpecField("timeoutSeconds") = PyInt(300)

\* the call with an empty config dict has returned its three documents, the
\* descriptor holding the defaults
C15_Witness ==
    /\ pc = "tool_returned"
    /\ input_json = EmptyMap
    /\ DOMAIN result.files = TemplateNames
    /\ DescriptorSpecField("serviceAccountName") = PyStr(s_SERVICE_ACCOUNT_ph)
    /\ DescriptorAnnotation("autoscaling.knative.dev/minScale") = PyStr(s_zero)
    /\ DescriptorAnnotation("autoscaling.knative.dev/maxScale") = PyStr(s_three)
    /\ DescriptorSpecField("containerConcurrency") = PyInt(80)
    /\ DescriptorSpecField("timeoutSeconds") = PyInt(300)

\* validate raised the error that names the ingress field
IngressRejected ==
    pc = "raised" /\ result.error.type = "ValueError" /\ result.error.field = s_f_ingress

\* C16 as stated: build accepts an ingress mode exactly when it is one of
\* all, internal, internal-and-load-balanced; any other value makes build
\* fail with the error naming the ingress field.
C16_IngressAsStated ==
    Validated =>
        IF cfg.ingress \in {s_all, s_internal, s_internal_spec_lb}
        THEN ~IngressRejected
        ELSE IngressRejected

\* C16 amended: the accepted modes are all, internal and
\* internal-and-cloud-load-balancing; any other value makes build fail, and
\* the error names the ingress field when the service name, which validate
\* checks first, is not empty.
C16_IngressModesAccepted ==
    Validated =>
        IF cfg.ingress \in {s_all, s_internal, s_internal_lb}
        THEN ~IngressRejected
        ELSE /\ pc = "raised"
             /\ files = NoFiles
             /\ Truthy(cfg.service_name) => IngressRejected

\* build was given internal-and-load-balanced and raised the ingress error
C16_Witness ==
    /\ Validated
    /\ "ingress" \in DOMAIN input_json
    /\ cfg.ingress = s_internal_spec_lb
    /\ Truthy(cfg.service_name)
    /\ IngressRejected

\* the reference the call was given as its i-th secret_env entry
GivenRef(i) ==
    input_json["secret_env"].v[i].v.v

\* the reference has no secret name, or an empty one
NoSecretName(i) ==
    "secret" \notin DOMAIN GivenRef(i) \/ ~Truthy(GivenRef(i)["secret"])

\* the reference has an empty version
EmptyVersion(i) ==
    "version" \in DOMAIN GivenRef(i) /\ ~Truthy(GivenRef(i)["version"])

\* the name validate gives the failing part of secret_env[k] in its message
SecretEnvField(i) ==
    s_secret_env_open \o cfg.secret_env[i].k \o
        (IF NoSecretName(i) THEN s_dot_secret ELSE s_dot_version)

\* the env item of the descriptor written for the i-th secret_env entry
SecretEnvItem(i) ==
    get_path(Descriptor, <<"spec", "template", "spec", "containers">>, PyNone)
        .v[1].v["env"].v[Len(cfg.env) + i]

\* C17: a secret_env entry whose reference has an empty or missing secret
\* name or an empty version makes build fail, the error naming
\* secret_env[k] when nothing validate checks before it fails; on a
\* successful build every secret_env entry is in the descriptor as
\* valueFrom.secretKeyRef with name and key, and has no inline value.
C17_SecretEnvIsReferenceOnly ==
    (Validated /\ "secret_env" \in DOMAIN input_json) =>
        \A i \in DOMAIN cfg.secret_env :
            /\ (NoSecretName(i) \/ EmptyVersion(i)) =>
                  /\ pc = "raised"
                  /\ files = NoFiles
                  /\ (/\ ChecksBeforeEnvPass
                      /\ \A e \in DOMAIN cfg.env : ~Secretish(cfg.env[e].v)
                      /\ \A j \in 1..(i - 1) : ~(NoSecretName(j) \/ EmptyVersion(j)))
                        => /\ result.error.type = "ValueError"
                           /\ result.error.field = SecretEnvField(i)
            /\ Generated =>
                  /\ DOMAIN SecretEnvItem(i).v = {"name", "valueFrom"}
                  /\ SecretEnvItem(i).v["name"] = PyStr(cfg.secret_env[i].k)
                  /\ SecretEnvItem(i).v["valueFrom"] =
                        PyMap("secretKeyRef" :>
                            PyMap(("name" :> GivenRef(i)["secret"]) @@
                                  ("key" :> IF "version" \in DOMAIN GivenRef(i)
                                            THEN GivenRef(i)["version"]
                                            ELSE PyStr(s_latest))))

\* the second of two references has an empty version, and build raised the
\* error naming it
C17_Witness ==
    /\ Validated
    /\ "secret_env" \in DOMAIN input_json
    /\ Len(cfg.secret_env) = 2
    /\ ~NoSecretName(1) /\ ~EmptyVersion(1)
    /\ EmptyVersion(2)
    /\ pc = "raised"
    /\ result.error.field = s_secret_env_open \o s_API_TOKEN \o s_dot_version

----------------------------------------------------------------------------
\* Claims about formatted auto-reports and the two scenarios

\* the count a sub-report gives for a severity; a skip marker gives none
SummaryCount(r, sev) ==
    IF "summary" \in DOMAIN r THEN r.summary[sev] ELSE 0

\* t is a finding of sub-report r, with the severity of the bucket it is in
DrawnFrom(t, r) ==
    /\ "findings" \in DOMAIN r
    /\ t.severity \in Severities
    /\ \E j \in DOMAIN r.findings[t.severity] :
          [r.findings[t.severity][j] EXCEPT !.severity = t.severity] = t

\* C18: the formatted auto-report sums each severity's count over the
\* sub-reports that are not skip markers, is titled "multiple", and takes
\* its top risks from the findings of all sub-reports, each with the
\* severity of its bucket; skip markers add nothing.
C18_AutoReportFormatted ==
    (pc = "formatted" /\ raw.kind = "auto") =>
        /\ DOMAIN review.summary = Severities
        /\ \A s \in Severities :
              review.summary[s] =
                  SummaryCount(raw.reports[1], s) + SummaryCount(raw.reports[2], s)
        /\ review.markdown[1] = [line |-> "title", service |-> PyStr(s_multiple)]
        /\ \A i \in DOMAIN review.top_risks :
              \E k \in DOMAIN raw.reports : DrawnFrom(review.top_risks[i], raw.reports[k])
        /\ Len(review.top_risks) = (IF TotalIn(raw) < 3 THEN TotalIn(raw) ELSE 3)
        /\ (\A k \in DOMAIN raw.reports : "findings" \notin DOMAIN raw.reports[k]) =>
              /\ review.top_risks = <<>>
              /\ \A s \in Severities : review.summary[s] = 0

\* both sub-reports hold MEDIUM findings, and the formatted summary counts
\* them together
C18_Witness ==
    /\ pc = "formatted"
    /\ raw.kind = "auto"
    /\ SummaryCount(raw.reports[1], "MEDIUM") > 0
    /\ SummaryCount(raw.reports[2], "MEDIUM") > 0
    /\ review.summary["MEDIUM"] =
          SummaryCount(raw.reports[1], "MEDIUM") + SummaryCount(raw.reports[2], "MEDIUM")
    /\ review.markdown[1].service = PyStr(s_multiple)

\* the revision spec and the containers of the reviewed document, as written
RawSpec ==
    get_path(ReviewedDoc, <<"spec", "template", "spec">>, PyNone)

RawContainers ==
    get_path(RawSpec, <<"containers">>, PyNone)

\* env entry e is sourced from a secret reference
SourcedFromSecret(e) ==
    get_path(e, <<"valueFrom", "secretKeyRef">>, PyNone) # PyNone

\* the reviewed text is a descriptor with no service account, one container
\* with a real image, containerConcurrency >= 50 and no env var sourced from
\* a secret reference
RiskyScenario ==
    /\ text.tree.t # "error"
    /\ RawSpec.t = "map"
    /\ get_path(RawSpec, <<"serviceAccountName">>, PyNone) \in {PyNone, PyStr(<<>>)}
    /\ get_path(RawSpec, <<"containerConcurrency">>, PyNone).t = "int"
    /\ get_path(RawSpec, <<"containerConcurrency">>, PyNone).v >= 50
    /\ RawContainers.t = "list"
    /\ Len(RawContainers.v) = 1
    /\ LET c0 == RawContainers.v[1]
           image == get_path(c0, <<"image">>, PyNone)
           env == get_path(c0, <<"env">>, PyNone)
       IN  /\ c0.t = "map"
           /\ image.t = "str"
           /\ Len(image.v) > 0
           /\ ~Contains(image.v, s_IMAGE_PLACEHOLDER)
           /\ env.t = "list" => \A i \in DOMAIN env.v : ~SourcedFromSecret(env.v[i])

\* C19 as stated: every such descriptor, whatever its other fields are, gets
\* a report with YAML030 in the HIGH bucket and YAML040 and YAML071 in the
\* MEDIUM bucket, and the formatted decision NO-GO.
C19_RiskyDescriptorIsNoGo ==
    (DescriptorRuleSetRan /\ RiskyScenario) =>
        /\ raw.ok
        /\ \E i \in DOMAIN DescriptorReport.findings["HIGH"] :
              DescriptorReport.findings["HIGH"][i].code = s_YAML030
        /\ \E i \in DOMAIN DescriptorReport.findings["MEDIUM"] :
              DescriptorReport.findings["MEDIUM"][i].code = s_YAML040
        /\ \E i \in DOMAIN DescriptorReport.findings["MEDIUM"] :
              DescriptorReport.findings["MEDIUM"][i].code = s_YAML071
        /\ pc = "formatted" => review.decision = "NO-GO"

\* the script rule set was called, and its report
ScriptRuleSetRan ==
    ReviewDone /\ \E i \in DOMAIN ran : ran[i] = "sh"

ScriptReport ==
    IF raw.kind = "auto" THEN raw.reports[2] ELSE raw

\* the codes of one bucket of a report
BucketCodes(r, sev) ==
    {r.findings[sev][i].code : i \in DOMAIN r.findings[sev]}

\* the script has --allow-unauthenticated, passes a literal under a name
\* holding KEY or PASSWORD after --set-env-vars and whitespace, and has no
\* --set-secrets
PublicWithPlainSecret ==
    /\ Contains(text.chars, s_fl_allow_unauth)
    /\ Contains(text.chars, s_fr_env_key) \/ Contains(text.chars, s_fr_env_split)
    /\ \A i \in 1..Len(text.chars) : ~LitAtCI(text.chars, i, s_fl_set_secrets)

----------------------------------------------------------------------------
\* Claims about evaluation order, the rendered text and the closed loop

\* q with the elements at i and j exchanged
Swapped(q, i, j) ==
    [k \in DOMAIN q |-> IF k = i THEN q[j] ELSE IF k = j THEN q[i] ELSE q[k]]

\* q in the opposite order
Reversed(q) ==
    [k \in DOMAIN q |-> q[Len(q) + 1 - k]]

\* the orders tried for a list of findings: as evaluated, reversed, and with
\* any two findings exchanged
Reorderings(q) ==
    {q, Reversed(q)} \cup {Swapped(q, i, j) : i, j \in DOMAIN q}

\* the reports a rule set would give had its checks appended their findings
\* in another order; a skip marker stays as it is
ReportsReordered(r) ==
    IF "findings" \notin DOMAIN r THEN {r}
    ELSE {format_report(r.kind, r.service, q) :
              q \in Reorderings(FlattenBuckets(r.findings, SEV_ORDER))}

\* the results review_cloudrun_config would give under another order of the
\* checks or of the two sub-reports
ResultsReordered(r) ==
    IF r.kind = "auto"
    THEN UNION {{[r EXCEPT !.reports = <<a, b>>], [r EXCEPT !.reports = <<b, a>>]} :
                   a \in ReportsReordered(r.reports[1]),
                   b \in ReportsReordered(r.reports[2])}
    ELSE ReportsReordered(r)

\* C21: the formatted review is determined by the text and the kind: a
\* second run gives the same review, and so does every other order of the
\* checks of a rule set or of the two sub-reports.
C21_ReviewIndependentOfOrder ==
    pc = "formatted" =>
        /\ review = format_cloudrun_review(review_cloudrun_config(text, kind))
        /\ \A r \in ResultsReordered(raw) : format_cloudrun_review(r) = review

\* an auto-report with several findings in both sub-reports, where a finding
\* of the second sub-report is among the top risks ahead of a finding of the
\* same severity that the first sub-report collected before it
C21_Witness ==
    /\ pc = "formatted"
    /\ raw.kind = "auto"
    /\ Len(review.top_risks) = 3
    /\ \E i \in DOMAIN review.top_risks :
          /\ review.top_risks[i].code \in CodesOf(raw.reports[2])
          /\ \E f \in FindingsIn(raw) :
                /\ f.code \in CodesOf(raw.reports[1])
                /\ f.severity = review.top_risks[i].severity
                /\ \A j \in DOMAIN review.top_risks : review.top_risks[j] # f
    /\ Cardinality(ResultsReordered(raw)) > 2

\* the lines of the rendered text of a given sort
LinesOf(sort) ==
    {i \in DOMAIN review.markdown : review.markdown[i].line = sort}

\* C22: the rendered text holds the next-step instruction to fix all HIGH
\* findings exactly when the decision is NO-GO; a GO review renders no
\* next-step block; the decision line shows the returned decision.
C22_NextStepIffNoGo ==
    pc = "formatted" =>
        /\ review.decision \in {"GO", "NO-GO"}
        /\ LinesOf("next_step") # {} <=> review.decision = "NO-GO"
        /\ review.decision = "GO" =>
              LinesOf("next_step") = {} /\ LinesOf("next_step_title") = {}
        /\ Cardinality(LinesOf("decision")) = 1
        /\ \A i \in LinesOf("decision") : review.markdown[i].decision = review.decision

\* a GO review with MEDIUM findings among its top risks and no next-step
\* block
C22_Witness ==
    /\ pc = "formatted"
    /\ review.decision = "GO"
    /\ review.summary["MEDIUM"] > 0
    /\ LinesOf("risk") # {}
    /\ LinesOf("next_step") = {}
    /\ LinesOf("next_step_title") = {}

\* env entry e has a name holding KEY, TOKEN, SECRET or PASSWORD in any
\* letter case, and a non-empty inline value
NamedSecretInline(e) ==
    /\ e.t = "map"
    /\ "name" \in DOMAIN e.v
    /\ \E w \in SecretNameWords : Contains(StrUpper(ToStr(e.v["name"])), w)
    /\ "value" \in DOMAIN e.v
    /\ Truthy(e.v["value"])

\* some env var of container c is such an entry
ContainerHasNamedSecret(c) ==
    /\ c.t = "map"
    /\ "env" \in DOMAIN c.v
    /\ c.v["env"].t = "list"
    /\ \E i \in DOMAIN c.v["env"].v : NamedSecretInline(c.v["env"].v[i])

\* ... of some container the reviewed descriptor defines
AnyContainerHasNamedSecret ==
    /\ RawContainers.t = "list"
    /\ \E k \in DOMAIN RawContainers.v : ContainerHasNamedSecret(RawContainers.v[k])

\* C23 as stated: the descriptor report holds YAML070, in the HIGH bucket,
\* exactly when some env var of some container of the descriptor has a
\* secret-like name and a non-empty inline value.
C23_PlaintextKeyInAnyContainer ==
    (DescriptorRuleSetRan /\ raw.ok /\ text.tree.t # "error") =>
        /\ s_YAML070 \in CodesOf(DescriptorReport) <=> AnyContainerHasNamedSecret
        /\ s_YAML070 \in CodesOf(DescriptorReport) =>
              s_YAML070 \in BucketCodes(DescriptorReport, "HIGH")

\* the reviewed text is a service.yaml a successful build produced
ReviewsGenerated ==
    DescriptorRuleSetRan /\ text \in GeneratedTexts

\* the ingress mode of the build, as the generator wrote it into the
\* descriptor (to_service_yaml_dict lines 174-176)
BuiltIngress ==
    get_path(ReviewedDoc, <<"metadata", "annotations", "run.googleapis.com/ingress">>, PyNone)

\* C24 as stated: the review of a descriptor a successful build produced has
\* the ingress finding YAML010 exactly when the build's ingress mode was
\* "all"; a descriptor built with ingress "internal" is reviewed without it.
C24_IngressClosedLoop ==
    (ReviewsGenerated /\ raw.ok) =>
        (s_YAML010 \in CodesOf(DescriptorReport) <=> BuiltIngress = PyStr(s_all))

----------------------------------------------------------------------------
\* Claims about the file read, the default output and the script findings

\* _safe_read_file has returned or raised, on Cloud Run
ReadOnCloudRun ==
    call # NoValue /\ pc # "report_called" /\ call.k_service

\* p is under /tmp or under the workspace root of the call
UnderTmpOrRoot(p) ==
    \/ IsRelativeTo(p, <<"tmp">>)
    \/ IsRelativeTo(p, pick_workspace_root(call.ws, call.mounted))

\* C25 as stated: on Cloud Run _safe_read_file returns the content of every
\* existing file under /tmp or under the workspace root, and raises without
\* reading for every path outside both; no file outside them is read.
C25_ReadsUnderTmpOrRootOnly ==
    ReadOnCloudRun =>
        LET p == resolve(call.path)
        IN  /\ (UnderTmpOrRoot(p) /\ p \in FilePaths(call.mounted)) =>
                  /\ pc # "read_raised"
                  /\ text = FileText(p)
                  /\ reads = {p}
            /\ ~UnderTmpOrRoot(p) =>
                  /\ pc = "read_raised"
                  /\ reads = {}
            /\ \A q \in reads : UnderTmpOrRoot(q)

\* the service.yaml of a build with no optional field, as a text to review
DefaultText ==
    [chars |-> s_descriptor_head,
     tree |-> generate_service_yaml(CloudRunConfig(EmptyMap)).v.tree]

\* C26: the descriptor a build with no optional field produces, reviewed by
\* the descriptor rule set and formatted, has no HIGH finding (neither
\* YAML030 nor YAML061 nor YAML070) and the decision GO.
C26_DefaultOutputPassesReview ==
    (DescriptorRuleSetRan /\ text = DefaultText) =>
        /\ raw.ok
        /\ DescriptorReport.findings["HIGH"] = <<>>
        /\ CodesOf(DescriptorReport) \cap {s_YAML030, s_YAML061, s_YAML070} = {}
        /\ pc = "formatted" => review.decision = "GO" /\ review.summary["HIGH"] = 0

\* the default descriptor, reviewed as a descriptor and formatted: findings
\* below HIGH only, decision GO
C26_Witness ==
    /\ pc = "formatted"
    /\ text = DefaultText
    /\ kind = PyStr(s_yaml)
    /\ raw.kind = "yaml"
    /\ raw.summary["HIGH"] = 0
    /\ raw.summary["MEDIUM"] > 0
    /\ review.decision = "GO"

\* the script holds the flag --set-secrets, in any letter case, ending where
\* a word ends
HasSecretsFlag ==
    \E i \in 1..Len(text.chars) :
        /\ LitAtCI(text.chars, i, s_fl_set_secrets)
        /\ WordBoundary(text.chars, i + Len(s_fl_set_secrets) - 1)

\* C27: a script report holds SH020 only together with SH021, and the
\* report of a script with a --set-secrets flag holds neither of them.
C27_PlainSecretImpliesNoSecretsFlag ==
    ScriptRuleSetRan =>
        /\ raw.ok
        /\ s_SH020 \in CodesOf(ScriptReport) => s_SH021 \in CodesOf(ScriptReport)
        /\ HasSecretsFlag => CodesOf(ScriptReport) \cap {s_SH020, s_SH021} = {}
        /\ ~HasSecretsFlag => s_SH021 \in BucketCodes(ScriptReport, "MEDIUM")

\* a script that sets API_KEY in plain text and also has --set-secrets: its
\* report holds neither SH020 nor SH021
C27_Witness ==
    /\ ScriptRuleSetRan
    /\ Contains(text.chars, s_fr_env_key)
    /\ Contains(text.chars, s_fr_secrets)
    /\ CodesOf(ScriptReport) \cap {s_SH020, s_SH021} = {}

\* the text holds neither a descriptor marker nor a script marker
NoMarkers ==
    /\ ~Contains(text.chars, s_apiVersion)
    /\ ~Contains(text.chars, s_gcloud_run_deploy)
    /\ ~Contains(text.chars, s_env_shebang)

\* C28: for a text without markers, the review with kind "auto" calls no
\* rule set and returns two skip markers, and its formatted review has the
\* decision GO, the count 0 for every severity and no top risk.
C28_NoMarkersIsEmptyGo ==
    (ReviewDone /\ kind = PyStr(s_auto) /\ NoMarkers) =>
        /\ raw.ok
        /\ raw.kind = "auto"
        /\ ran = <<>>
        /\ Len(raw.reports) = 2
        /\ Placeholder(raw.reports[1], "yaml")
        /\ Placeholder(raw.reports[2], "sh")
        /\ pc = "formatted" =>
              /\ review.decision = "GO"
              /\ \A s \in Severities : review.summary[s] = 0
              /\ review.top_risks = <<>>

\* the text 'hello' reviewed with kind "auto" and formatted
C28_Witness ==
    /\ pc = "formatted"
    /\ kind = PyStr(s_auto)
    /\ text.chars = s_hello
    /\ NoMarkers
    /\ ran = <<>>
    /\ review.decision = "GO"
    /\ review.top_risks = <<>>
    /\ LinesOf("none") # {}

\* number of findings of a report
SizeOf(r) ==
    Len(r.findings["HIGH"]) + Len(r.findings["MEDIUM"])
        + Len(r.findings["LOW"]) + Len(r.findings["INFO"])

\* two codes that are not both in the report
Exclusive(r, a, b) ==
    ~(a \in CodesOf(r) /\ b \in CodesOf(r))

\* C29: in every report of a rule set each code occurs at most once, and
\* the alternatives exclude each other: YAML030 and YAML031, SH010 and
\* SH011, and YAML060 against YAML061, YAML070, YAML071 and YAML080.
C29_CodesUniqueAndExclusive ==
    (ReviewDone /\ raw.ok) =>
        \A i \in DOMAIN ReportsIn(raw) :
            LET r == ReportsIn(raw)[i]
            IN  /\ SizeOf(r) = Cardinality(CodesOf(r))
                /\ \A s, t \in Severities :
                       s # t => BucketCodes(r, s) \cap BucketCodes(r, t) = {}
                /\ Exclusive(r, s_YAML030, s_YAML031)
                /\ Exclusive(r, s_SH010, s_SH011)
                /\ \A c \in {s_YAML061, s_YAML070, s_YAML071, s_YAML080} :
                       Exclusive(r, s_YAML060, c)

\* a script report with SH011 for the default compute account
C29_Witness ==
    /\ ReviewDone
    /\ raw.ok
    /\ \E i \in DOMAIN ReportsIn(raw) :
           /\ s_SH011 \in CodesOf(ReportsIn(raw)[i])
           /\ s_SH010 \notin CodesOf(ReportsIn(raw)[i])
           /\ SizeOf(ReportsIn(raw)[i]) > 1

====
